---- MODULE Spec2Model ----
(***************************************************************************)
(* Model of the PDF-to-structured-text pipeline of the research assistant  *)
(* backend (src/backend/utils/pdf_processor.py).                           *)
(*                                                                         *)
(* A Python str is modelled as a sequence of one-character strings, so     *)
(* that the regular expressions, str.strip, str.lower and str.endswith are *)
(* computed character by character.  Positions are 1-based here: Python's  *)
(* text[a:b] is SubSeq(text, a+1, b).                                      *)
(***************************************************************************)
EXTENDS Integers, Sequences, FiniteSets, TLC

VARIABLES
    text,            \* the str argument of extract_sections / extract_figures_and_tables
    pc,              \* position of the modelled call: "ready" before it, "done" after it
    matches,         \* extract_sections: list(re.finditer(section_pattern, text, re.IGNORECASE))
    sections,        \* extract_sections: the dict it returns (a function from key to content)
    figure_matches,  \* extract_figures_and_tables: the matches of figure_pattern, in scan order
    table_matches,   \* extract_figures_and_tables: the matches of table_pattern, in scan order
    figures_tables,  \* extract_figures_and_tables: the list it returns
    url,             \* download_pdf: its argument
    http,            \* download_pdf: what requests.get(url, timeout=30) did
    outcome,         \* download_pdf: how the call ended (returned value or escaped exception)
    pdf,             \* extract_text_from_pdf: the document its pdf_content argument encodes
    extracted,       \* extract_text_from_pdf: how the call ended
    papers,          \* process_papers: the paper dicts of the batch (changed in place)
    papers_in,       \* process_papers: the batch as it was when the call began
    fetch_content,   \* process_papers: the fetch_content argument
    paper_idx,       \* process_papers: position of the for loop in the batch
    processed_papers,\* process_papers: the list being built, as positions in the batch
    log,             \* process_papers: the steps taken, in order
    served,          \* process_papers: what each paper's URL served when requested
    paper_data,      \* store_paper: the paper dict given (changed in place)
    topic_name,      \* store_paper: the topic given
    db_papers,       \* the database: Paper nodes by paper_id
    db_topics,       \* the database: names of the Topic nodes
    db_belongs,      \* the database: BELONGS_TO edges, as <<paper_id, topic>>
    store_ret,       \* store_paper: the value returned
    db_call,         \* the latest database call: operation and arguments
    db_ret,          \* how that call ended (store_paper: see store_ret)
    ncalls,          \* the number of database calls made so far
    llm_op,          \* the LLM operation called, with its arguments
    llm_reply,       \* what ollama.chat did
    llm_ret,         \* how the LLM operation ended
    request,         \* POST /search: the request body
    found,           \* POST /search: the papers search_arxiv returned
    response,        \* POST /search: the response, once produced
    background,      \* POST /search: the background tasks not yet run
    trace            \* POST /search: the steps taken, in order

vars == <<text, pc, matches, sections, figure_matches, table_matches, figures_tables,
          url, http, outcome, pdf, extracted,
          papers, papers_in, fetch_content, paper_idx, processed_papers, log, served,
          paper_data, topic_name, db_papers, db_topics, db_belongs, store_ret,
          db_call, db_ret, ncalls, llm_op, llm_reply, llm_ret,
          request, found, response, background, trace>>

\* the state of extract_sections and of extract_figures_and_tables
segVars == <<matches, sections>>
figVars == <<figure_matches, table_matches, figures_tables>>
fetchVars == <<url, http, outcome>>
extractVars == <<pdf, extracted>>
pipeVars == <<papers, papers_in, fetch_content, paper_idx, processed_papers, log, served>>

\* None, and a value v, as the Optional results of the code
None == [some |-> FALSE, value |-> <<>>]
Some(v) == [some |-> TRUE, value |-> v]

\* the end of a call: it returned ret, or the exception exc escaped to the caller
Returned(ret) == [exc |-> "", ret |-> ret]
Raised(e) == [exc |-> e, ret |-> None]

\* no HTTP exchange yet
NoHttp == [kind |-> "none"]

\* the parts of the state a call does not use, before any call
TextIdle ==
    /\ text = <<>>
    /\ matches = <<>>
    /\ sections = <<>>
    /\ figure_matches = <<>>
    /\ table_matches = <<>>
    /\ figures_tables = <<>>

FetchIdle ==
    /\ url = <<>>
    /\ http = NoHttp
    /\ outcome = Returned(None)

\* a document that PdfReader cannot open
NoPdf == [opens |-> FALSE, pages |-> <<>>]

ExtractIdle ==
    /\ pdf = NoPdf
    /\ extracted = Returned(None)

storeVars == <<paper_data, topic_name, db_papers, db_topics, db_belongs, store_ret>>

\* a key that the dict does not have (None is a key holding None)
Absent == [some |-> FALSE, value |-> <<"absent">>]

callVars == <<db_call, db_ret, ncalls>>
llmVars == <<llm_op, llm_reply, llm_ret>>
searchVars == <<request, found, response, background, trace>>

\* no database call yet
NoCall ==
    [op |-> "none", topic |-> "", paper_id |-> "", year_from |-> None, year_to |-> None]

CallIdle ==
    /\ db_call = NoCall
    /\ db_ret = Returned(None)
    /\ ncalls = 0

\* no inference call: ollama.chat was not reached
NoReply == [kind |-> "none", type |-> "", msg |-> <<>>, content |-> <<>>]

\* what an operation of an agent gave back: the exception that left it, if
\* any, else the text, the dict key it stands under ("" for a bare str) and
\* the argument returned along with it
Payload(f, a, t) == [exc |-> "", field |-> f, echo |-> a, text |-> t]
Propagated(e) == [exc |-> e.type, field |-> "", echo |-> <<>>, text |-> <<>>]

LlmIdle ==
    /\ llm_op = [op |-> "none", prompt |-> <<>>]
    /\ llm_reply = NoReply
    /\ llm_ret = Payload("", <<>>, <<>>)

SearchIdle ==
    /\ request = [topic |-> "", fetch_content |-> FALSE]
    /\ found = <<>>
    /\ response = None
    /\ background = <<>>
    /\ trace = <<>>

StoreIdle ==
    /\ paper_data = <<>>
    /\ topic_name = <<>>
    /\ db_papers = <<>>
    /\ db_topics = {}
    /\ db_belongs = <<>>
    /\ store_ret = None

PipeIdle ==
    /\ papers = <<>>
    /\ papers_in = <<>>
    /\ fetch_content = FALSE
    /\ paper_idx = 1
    /\ processed_papers = <<>>
    /\ log = <<>>
    /\ served = <<>>

-----------------------------------------------------------------------------
(* Characters and the str methods the code uses.                           *)

UpperChars == <<"A","B","C","D","E","F","G","H","I","J","K","L","M","N","O","P","Q","R","S","T","U","V","W","X","Y","Z">>
LowerChars == <<"a","b","c","d","e","f","g","h","i","j","k","l","m","n","o","p","q","r","s","t","u","v","w","x","y","z">>

\* one character under re.IGNORECASE / str.lower (ASCII)
Lower(c) ==
    IF \E i \in 1..26 : UpperChars[i] = c
    THEN LowerChars[CHOOSE i \in 1..26 : UpperChars[i] = c]
    ELSE c

\* the characters matched by \s, which are also the ones str.strip() removes
IsSpace(c) == c \in {" ", "\n", "\t", "\r"}

\* text[a:] for a 1-based first position
From(s, a) == SubSeq(s, a, Len(s))

RECURSIVE LStrip(_)
LStrip(s) == IF s # <<>> /\ IsSpace(Head(s)) THEN LStrip(Tail(s)) ELSE s

RECURSIVE RStrip(_)
RStrip(s) ==
    IF s # <<>> /\ IsSpace(s[Len(s)]) THEN RStrip(SubSeq(s, 1, Len(s) - 1)) ELSE s

\* str.strip()
Strip(s) == RStrip(LStrip(s))

\* the literal lit matches text at position p, ignoring case
MatchLit(s, p, lit) ==
    /\ p >= 1
    /\ p + Len(lit) - 1 <= Len(s)
    /\ \A i \in 1..Len(lit) : Lower(s[p + i - 1]) = Lower(lit[i])

-----------------------------------------------------------------------------
(* extract_sections                                                        *)

\* section_patterns, each alternative expanded into the literals it matches,
\* in the order the regex engine tries them (an optional "s" greedy first).
section_patterns ==
    << <<"A","b","s","t","r","a","c","t">>,
       <<"I","n","t","r","o","d","u","c","t","i","o","n">>,
       <<"R","e","l","a","t","e","d"," ","W","o","r","k">>,
       <<"B","a","c","k","g","r","o","u","n","d">>,
       <<"M","e","t","h","o","d","o","l","o","g","y">>,
       <<"M","e","t","h","o","d">>,
       <<"A","p","p","r","o","a","c","h">>,
       <<"E","x","p","e","r","i","m","e","n","t","s">>, <<"E","x","p","e","r","i","m","e","n","t">>,
       <<"E","v","a","l","u","a","t","i","o","n">>,
       <<"R","e","s","u","l","t","s"," ","a","n","d"," ","D","i","s","c","u","s","s","i","o","n">>, <<"R","e","s","u","l","t","s"," ","&"," ","D","i","s","c","u","s","s","i","o","n">>,
       <<"R","e","s","u","l","t"," ","a","n","d"," ","D","i","s","c","u","s","s","i","o","n">>, <<"R","e","s","u","l","t"," ","&"," ","D","i","s","c","u","s","s","i","o","n">>,
       <<"R","e","s","u","l","t","s">>, <<"R","e","s","u","l","t">>,
       <<"D","i","s","c","u","s","s","i","o","n">>,
       <<"C","o","n","c","l","u","s","i","o","n","s">>, <<"C","o","n","c","l","u","s","i","o","n">>,
       <<"F","u","t","u","r","e"," ","W","o","r","k">>,
       <<"R","e","f","e","r","e","n","c","e","s">>,
       <<"A","p","p","e","n","d","i","x">> >>

\* the closing group (?:\s|\n|:) of section_pattern: exactly one character
IsDelim(c) == IsSpace(c) \/ c = ":"

\* the literal number k matches at h and is followed by a delimiter
HeadingAt(s, h, k) ==
    /\ MatchLit(s, h, section_patterns[k])
    /\ h + Len(section_patterns[k]) <= Len(s)
    /\ IsDelim(s[h + Len(section_patterns[k])])

\* the group (Abstract|Introduction|...) followed by the delimiter, tried at h:
\* the first alternative that lets the whole pattern match wins
HasHeading(s, h) == \E k \in 1..Len(section_patterns) : HeadingAt(s, h, k)
FirstHeading(s, h) ==
    CHOOSE k \in 1..Len(section_patterns) :
        /\ HeadingAt(s, h, k)
        /\ \A j \in 1..(k - 1) : ~HeadingAt(s, h, j)

\* the key taken from match.group(0), the whole match, instead of group(1)
MatchRecWholeGroup(s, p, h) ==
    LET lit == section_patterns[FirstHeading(s, h)] IN
    [start |-> p, hstart |-> h, name |-> SubSeq(s, p, h + Len(lit)),
     end |-> h + Len(lit) + 1]

\* a match object: start = match.start() + 1, hstart = match.start(1) + 1,
\* name = match.group(1), end = match.end() + 1 (the first position after it)
MatchRec(s, p, h) ==
    LET lit == section_patterns[FirstHeading(s, h)] IN
    [start |-> p, hstart |-> h, name |-> SubSeq(s, h, h + Len(lit) - 1),
     end |-> h + Len(lit) + 1]

\* section_pattern tried at position p: (?:^|\n) takes ^ first (only at the
\* start of the text: no re.MULTILINE), then a newline character, which it consumes.
\* <<>> when there is no match at p, else the one match.
SectionMatchAt(s, p) ==
    IF p = 1 /\ HasHeading(s, 1)
    THEN <<MatchRec(s, 1, 1)>>
    ELSE IF p <= Len(s) /\ s[p] = "\n" /\ HasHeading(s, p + 1)
         THEN <<MatchRec(s, p, p + 1)>>
         ELSE <<>>

\* re.finditer: leftmost matches, the scan resuming where the last match ended
RECURSIVE FindSections(_, _)
FindSections(s, p) ==
    IF p > Len(s) THEN <<>>
    ELSE LET m == SectionMatchAt(s, p) IN
         IF m = <<>> THEN FindSections(s, p + 1)
         ELSE m \o FindSections(s, m[1].end)

\* a store that keeps the first value of a key instead of overwriting it
PutKeepFirst(d, k, v) ==
    [x \in (DOMAIN d) \cup {k} |-> IF x \in DOMAIN d THEN d[x] ELSE v]

\* sections[key] = value
Put(d, k, v) == [x \in (DOMAIN d) \cup {k} |-> IF x = k THEN v ELSE d[x]]

\* every span running to the end of the text
EndPosToEnd(s, ms, i) == Len(s) + 1

\* end_pos of the loop for match i, as the first position not in the span
EndPos(s, ms, i) == IF i < Len(ms) THEN ms[i + 1].start ELSE Len(s) + 1

\* text[start_pos:end_pos] of the loop for match i
SpanText(s, ms, i) == SubSeq(s, ms[i].start, EndPos(s, ms, i) - 1)

\* the loop body without .strip()
SectionContentRaw(s, ms, i) == SpanText(s, ms, i)

\* section_content = text[start_pos:end_pos].strip()
SectionContent(s, ms, i) == Strip(SpanText(s, ms, i))

\* the loop "for i, match in enumerate(matches)" from iteration i on
RECURSIVE StoreSections(_, _, _, _)
StoreSections(s, ms, i, d) ==
    IF i > Len(ms) THEN d
    ELSE StoreSections(s, ms, i + 1, Put(d, ms[i].name, SectionContent(s, ms, i)))

FullTextKey == <<"F","u","l","l"," ","T","e","x","t">>

\* the fallback left out: an empty dict is returned as it is
FallbackNone(s, d) == d

\* the fallback storing the trimmed text
FallbackStripped(s, d) == IF DOMAIN d = {} THEN Put(d, FullTextKey, Strip(s)) ELSE d

\* if not sections: sections['Full Text'] = text
Fallback(s, d) == IF DOMAIN d = {} THEN Put(d, FullTextKey, s) ELSE d

ExtractSections ==
    /\ pc = "ready"
    /\ matches' = FindSections(text, 1)
    /\ sections' = Fallback(text, StoreSections(text, matches', 1, <<>>))
    /\ pc' = "done"
    /\ UNCHANGED <<text, figVars, fetchVars, extractVars, pipeVars, storeVars, callVars, llmVars, searchVars>>

-----------------------------------------------------------------------------
(* Inputs of the segmenter: every text of at most MaxSegTokens pieces, and  *)
(* the texts the specification gives as examples.                          *)

MaxSegTokens == 5

SegTokens == { <<"M","e","t","h","o","d">>, <<"R","e","s","u","l","t">>, <<"R","E","S","U","L","T">>, <<"\n">>, <<":">>, <<"x">> }

RECURSIVE Concat(_)
Concat(ts) == IF ts = <<>> THEN <<>> ELSE Head(ts) \o Concat(Tail(ts))

TokenTexts(tokens, n) ==
    UNION { { Concat(ts) : ts \in [1..k -> tokens] } : k \in 0..n }

SegExamples ==
    { <<"I","n","t","r","o","d","u","c","t","i","o","n","\n","f","o","o","\n","M","e","t","h","o","d","\n","b","a","r">>,
      <<"R","e","s","u","l","t","s","\n","o","n","e","\n","\n","R","e","s","u","l","t","s","\n","t","w","o">>,
      <<"A","b","s","t","r","a","c","t","\n","I","n","t","r","o","d","u","c","t","i","o","n","\n","f","o","o">>,
      <<"1"," ","E","x","p","e","r","i","m","e","n","t","\n","R","e","s","u","l","t","s"," ","a","n","d"," ","D","i","s","c","u","s","s","i","o","n",":","\n","o","k","\n","\n","C","O","N","C","L","U","S","I","O","N","S"," ","\n">> }

\* the texts of at most n pieces, and the examples
SegTexts(n) == TokenTexts(SegTokens, n) \cup SegExamples

InitSeg ==
    /\ text \in SegTexts(MaxSegTokens)
    /\ pc = "ready"
    /\ matches = <<>>
    /\ sections = <<>>
    /\ figure_matches = <<>>
    /\ table_matches = <<>>
    /\ figures_tables = <<>>
    /\ FetchIdle
    /\ ExtractIdle
    /\ PipeIdle
    /\ StoreIdle
    /\ CallIdle
    /\ LlmIdle
    /\ SearchIdle

NextSeg == ExtractSections

SpecSeg == InitSeg /\ [][NextSeg]_vars

-----------------------------------------------------------------------------
(* extract_figures_and_tables                                              *)

IsDigit(c) == c \in {"0", "1", "2", "3", "4", "5", "6", "7", "8", "9"}

\* the length of the longest run of whitespace (\s), digits (\d) and
\* characters other than a period ([^\.]) that starts at position p
RECURSIVE WsRun(_, _)
WsRun(s, p) == IF p <= Len(s) /\ IsSpace(s[p]) THEN 1 + WsRun(s, p + 1) ELSE 0

RECURSIVE DigitRun(_, _)
DigitRun(s, p) == IF p <= Len(s) /\ IsDigit(s[p]) THEN 1 + DigitRun(s, p + 1) ELSE 0

RECURSIVE NonDotRun(_, _)
NonDotRun(s, p) == IF p <= Len(s) /\ s[p] # "." THEN 1 + NonDotRun(s, p + 1) ELSE 0

\* \s*([^\.]+) tried at r: the position where group 2 starts, 0 when it fails.
\* \s* is greedy; when no caption character is left after the whitespace it
\* gives its last character back to [^\.]+
CaptionFrom(s, r) ==
    LET c == r + WsRun(s, r) IN
    IF c <= Len(s) /\ s[c] # "." THEN c
    ELSE IF c > r THEN c - 1 ELSE 0

\* [:\.]?\s*([^\.]+) tried at r: the optional character is taken when it is
\* there and the rest then matches, and otherwise skipped
AfterNumber(s, r) ==
    IF r <= Len(s) /\ s[r] \in {":", "."} /\ CaptionFrom(s, r + 1) # 0
    THEN CaptionFrom(s, r + 1)
    ELSE CaptionFrom(s, r)

\* \s+(\d+)[:\.]?\s*([^\.]+) tried at q, the position after the keyword.
\* \d+ is greedy and gives back its last digit when nothing may follow the
\* full run.  ok, the span of group 1, the start of group 2, the match's end + 1.
RefTail(s, q) ==
    LET d0 == q + WsRun(s, q)
        m  == DigitRun(s, d0)
        fail == [ok |-> FALSE, numStart |-> 0, numEnd |-> 0, capStart |-> 0, end |-> 0]
        hit(ne, c) == [ok |-> TRUE, numStart |-> d0, numEnd |-> ne, capStart |-> c,
                       end |-> c + NonDotRun(s, c)]
    IN  IF d0 = q \/ m = 0 THEN fail
        ELSE IF AfterNumber(s, d0 + m) # 0 THEN hit(d0 + m - 1, AfterNumber(s, d0 + m))
        ELSE IF m >= 2 THEN hit(d0 + m - 2, d0 + m - 1)
        ELSE fail

\* (?:Figure|Fig\.?) and Table: the keyword alternatives in the order tried
FigureKeywords == << <<"F","i","g","u","r","e">>, <<"F","i","g",".">>, <<"F","i","g">> >>
TableKeywords == << <<"T","a","b","l","e">> >>

\* the keyword alternative number k lets the pattern match at p
KeywordHit(s, p, kws, k) ==
    MatchLit(s, p, kws[k]) /\ RefTail(s, p + Len(kws[k])).ok

\* the pattern tried at p: <<>> when it does not match, else the one match
\* [start, end, numStart, numEnd, capStart] (end is match.end() + 1)
RefMatchAt(s, p, kws) ==
    IF \E k \in 1..Len(kws) : KeywordHit(s, p, kws, k)
    THEN LET k == CHOOSE k \in 1..Len(kws) :
                      /\ KeywordHit(s, p, kws, k)
                      /\ \A j \in 1..(k - 1) : ~KeywordHit(s, p, kws, j)
             t == RefTail(s, p + Len(kws[k]))
         IN  << [start |-> p, end |-> t.end, numStart |-> t.numStart,
                 numEnd |-> t.numEnd, capStart |-> t.capStart] >>
    ELSE <<>>

\* re.finditer(pattern, text, re.IGNORECASE) from position p on
RECURSIVE FindRefs(_, _, _)
FindRefs(s, p, kws) ==
    IF p > Len(s) THEN <<>>
    ELSE LET m == RefMatchAt(s, p, kws) IN
         IF m = <<>> THEN FindRefs(s, p + 1, kws)
         ELSE m \o FindRefs(s, m[1].end, kws)

\* the caption kept as matched, whitespace included
CaptionRaw(s, m) == SubSeq(s, m.capStart, m.end - 1)

\* match.group(2).strip()
Caption(s, m) == Strip(SubSeq(s, m.capStart, m.end - 1))

\* the dict appended for one match
RefRecord(s, m, kind) ==
    [type |-> kind,
     number |-> SubSeq(s, m.numStart, m.numEnd),
     caption |-> Caption(s, m),
     text |-> SubSeq(s, m.start, m.end - 1)]

RefRecords(s, ms, kind) == [i \in 1..Len(ms) |-> RefRecord(s, ms[i], kind)]

\* one list in document order, figures and tables interleaved
RECURSIVE MergeByPosition(_, _, _)
MergeByPosition(s, fs, ts) ==
    IF fs = <<>> THEN RefRecords(s, ts, "table")
    ELSE IF ts = <<>> THEN RefRecords(s, fs, "figure")
    ELSE IF fs[1].start < ts[1].start
         THEN <<RefRecord(s, fs[1], "figure")>> \o MergeByPosition(s, Tail(fs), ts)
         ELSE <<RefRecord(s, ts[1], "table")>> \o MergeByPosition(s, fs, Tail(ts))

\* the two loops of appends: the figure matches, then the table matches
AppendAll(s, fs, ts) == RefRecords(s, fs, "figure") \o RefRecords(s, ts, "table")

ExtractFiguresAndTables ==
    /\ pc = "ready"
    /\ figure_matches' = FindRefs(text, 1, FigureKeywords)
    /\ table_matches' = FindRefs(text, 1, TableKeywords)
    /\ figures_tables' = AppendAll(text, figure_matches', table_matches')
    /\ pc' = "done"
    /\ UNCHANGED <<text, segVars, fetchVars, extractVars, pipeVars, storeVars, callVars, llmVars, searchVars>>

-----------------------------------------------------------------------------
(* Inputs of the reference extractor.                                      *)

MaxFigTokens == 5

FigTokens == { <<"f","i","g"," ","1">>, <<"T","a","b","l","e"," ","2">>, <<"1">>, <<".">>, <<":">>, <<" ","a"," ">> }

PlotExample == <<"F","i","g","u","r","e"," ","1",":"," ","A"," ","p","l","o","t"," ","o","f"," ","a","c","c","u","r","a","c","y","."," ","S","o","m","e"," ","o","t","h","e","r"," ","s","e","n","t","e","n","c","e",".">>

FigExamples ==
    { PlotExample,
      <<"T","a","b","l","e"," ","1",":"," ","t","."," ","F","i","g"," ","1",":"," ","a","."," ","F","i","g","u","r","e"," ","1",":"," ","b",".">>,
      <<"F","i","g","."," ","3",":"," ","b",".","\n","s","e","e"," ","F","I","G","U","R","E"," ","1","2",".","\n","T","A","B","L","E"," ","1",".","5"," ","x","."," ","y">>,
      <<"F","i","g","u","r","e"," ","7"," ",":",".">> }

\* the texts of at most n pieces, and the examples
FigTexts(n) == TokenTexts(FigTokens, n) \cup FigExamples

InitFig ==
    /\ text \in FigTexts(MaxFigTokens)
    /\ pc = "ready"
    /\ matches = <<>>
    /\ sections = <<>>
    /\ figure_matches = <<>>
    /\ table_matches = <<>>
    /\ figures_tables = <<>>
    /\ FetchIdle
    /\ ExtractIdle
    /\ PipeIdle
    /\ StoreIdle
    /\ CallIdle
    /\ LlmIdle
    /\ SearchIdle

NextFig == ExtractFiguresAndTables

SpecFig == InitFig /\ [][NextFig]_vars

-----------------------------------------------------------------------------
(* download_pdf                                                            *)

\* needle in hay (the str operator "in")
Contains(hay, needle) ==
    \E p \in 1..(Len(hay) - Len(needle) + 1) :
        SubSeq(hay, p, p + Len(needle) - 1) = needle

\* s.endswith(suffix)
EndsWith(s, suffix) ==
    /\ Len(suffix) <= Len(s)
    /\ SubSeq(s, Len(s) - Len(suffix) + 1, Len(s)) = suffix

\* url.lower()
LowerStr(s) == [i \in 1..Len(s) |-> Lower(s[i])]

PdfMime == <<"a","p","p","l","i","c","a","t","i","o","n","/","p","d","f">>
PdfSuffix == <<".","p","d","f">>

\* what requests.get can do: raise, or return a response
TransportErrors == {"ConnectionError", "Timeout", "MissingSchema"}
HttpError(e) == [kind |-> "error", exc |-> e]
HttpResponse(st, ct, body) ==
    [kind |-> "response", status |-> st, content_type |-> ct, content |-> body]

\* response.raise_for_status() raises HTTPError for a 4xx or 5xx status
StatusFails(st) == st >= 400 /\ st < 600

\* the test with "or" for "and": either sign of a PDF missing rejects
NotPdfEither(u, ct) == ~Contains(ct, PdfMime) \/ ~EndsWith(LowerStr(u), PdfSuffix)

\* the test of line 34: neither a PDF content type nor a .pdf URL
NotPdf(u, ct) == ~Contains(ct, PdfMime) /\ ~EndsWith(LowerStr(u), PdfSuffix)

\* the body of the try block: how it ends for the URL u and the exchange h
TryDownload(u, h) ==
    IF h.kind = "error" THEN Raised(h.exc)
    ELSE IF StatusFails(h.status) THEN Raised("HTTPError")
    ELSE IF NotPdf(u, h.content_type) THEN Returned(None)
    ELSE Returned(Some(h.content))

\* a handler that lets the HTTP status error through
CatchTransportOnly(r) == IF r.exc \in TransportErrors THEN Returned(None) ELSE r

\* except Exception as e: log and return None
CatchAll(r) == IF r.exc # "" THEN Returned(None) ELSE r

Statuses == {200, 404, 503}

ContentTypes == { PdfMime, <<"a","p","p","l","i","c","a","t","i","o","n","/","p","d","f",";"," ","q">>, <<"t","e","x","t","/","h","t","m","l">>, <<>> }

Payloads == { <<>>, <<"%","P","D","F">> }

\* every exchange the model lets the network produce
HttpOutcomes ==
    { HttpError(e) : e \in TransportErrors }
        \cup { HttpResponse(st, ct, body) :
                   st \in Statuses, ct \in ContentTypes, body \in Payloads }

DownloadPdf ==
    /\ pc = "ready"
    /\ \E h \in HttpOutcomes : http' = h
    /\ outcome' = CatchAll(TryDownload(url, http'))
    /\ pc' = "done"
    /\ UNCHANGED <<url, text, segVars, figVars, extractVars, pipeVars, storeVars, callVars, llmVars, searchVars>>

-----------------------------------------------------------------------------
(* Inputs of the fetcher.                                                  *)

Urls == { <<"h","/","a",".","p","d","f">>, <<"h","/","A",".","P","D","F">>, <<"h","/","a">>, <<"h","/","a",".","p","d","f","?","v">>, <<>>, <<"p","d","f">> }

InitFetch ==
    /\ url \in Urls
    /\ http = NoHttp
    /\ outcome = Returned(None)
    /\ pc = "ready"
    /\ TextIdle
    /\ ExtractIdle
    /\ PipeIdle
    /\ StoreIdle
    /\ CallIdle
    /\ LlmIdle
    /\ SearchIdle

NextFetch == DownloadPdf

SpecFetch == InitFetch /\ [][NextFetch]_vars

-----------------------------------------------------------------------------
(* extract_text_from_pdf                                                   *)
(* The bytes are modelled by the document they encode: whether             *)
(* PyPDF2.PdfReader opens them, and for every page whether extract_text()  *)
(* throws or which text it returns.                                        *)

PageOk(t) == [throws |-> FALSE, text |-> t]
PageThrows == [throws |-> TRUE, text |-> <<>>]
PdfDoc(ps) == [opens |-> TRUE, pages |-> ps]

PageSep == <<"\n","\n">>

\* the separator put before every page but the first
AddPageBetween(acc, t) == IF acc = <<>> THEN t ELSE acc \o PageSep \o t

\* text += page.extract_text() + "\n\n"
AddPage(acc, t) == acc \o t \o PageSep

\* a loop that skips a page whose extraction throws
RECURSIVE ExtractLoopSkipping(_, _, _)
ExtractLoopSkipping(ps, i, acc) ==
    IF i > Len(ps) THEN Returned(Some(acc))
    ELSE IF ps[i].throws THEN ExtractLoopSkipping(ps, i + 1, acc)
    ELSE ExtractLoopSkipping(ps, i + 1, AddPage(acc, ps[i].text))

\* for page_num in range(len(pdf_reader.pages)), from page i on; return text
RECURSIVE ExtractLoop(_, _, _)
ExtractLoop(ps, i, acc) ==
    IF i > Len(ps) THEN Returned(Some(acc))
    ELSE IF ps[i].throws THEN Raised("Exception")
    ELSE ExtractLoop(ps, i + 1, AddPage(acc, ps[i].text))

\* the body of the try block
TryExtract(doc) ==
    IF ~doc.opens THEN Raised("PdfReadError") ELSE ExtractLoop(doc.pages, 1, <<>>)

\* extract_text_from_pdf(pdf_content), with its except Exception: return None
ExtractText(doc) == CatchAll(TryExtract(doc))

ExtractTextFromPdf ==
    /\ pc = "ready"
    /\ extracted' = ExtractText(pdf)
    /\ pc' = "done"
    /\ UNCHANGED <<pdf, text, segVars, figVars, fetchVars, pipeVars, storeVars, callVars, llmVars, searchVars>>

-----------------------------------------------------------------------------
(* Inputs of the text extractor: documents of at most MaxPages pages.      *)

MaxPages == 3

PageTexts == { <<"a">>, <<>>, <<"b","\n","\n","c">> }

PageOutcomes == { PageOk(t) : t \in PageTexts } \cup { PageThrows }

PdfDocs(n) ==
    { NoPdf } \cup UNION { { PdfDoc(ps) : ps \in [1..k -> PageOutcomes] } : k \in 0..n }

InitExtract ==
    /\ pdf \in PdfDocs(MaxPages)
    /\ extracted = Returned(None)
    /\ pc = "ready"
    /\ TextIdle
    /\ FetchIdle
    /\ PipeIdle
    /\ StoreIdle
    /\ CallIdle
    /\ LlmIdle
    /\ SearchIdle

NextExtract == ExtractTextFromPdf

SpecExtract == InitExtract /\ [][NextExtract]_vars

-----------------------------------------------------------------------------
(* process_pdf and SearchAgent.process_papers                              *)
(* A paper dict is a record of optional fields; None stands for a key that *)
(* is absent (for url: absent or None, which paper.get("url") treats       *)
(* alike). What a URL serves is an HTTP exchange together with the         *)
(* document the response body encodes.                                     *)

\* extract_sections(text) as a value
SectionMap(s) == Fallback(s, StoreSections(s, FindSections(s, 1), 1, <<>>))

\* extract_figures_and_tables(text) as a value
FiguresTables(s) ==
    AppendAll(s, FindRefs(s, 1, FigureKeywords), FindRefs(s, 1, TableKeywords))

\* a test that takes only None for a missing text
NotTextNoneOnly(t) == ~t.some

\* "not text" for an Optional[str]: None or the empty string
NotText(t) == ~t.some \/ t.value = <<>>

\* a process_pdf that goes on to the extractor after a failed download
ProcessPdfEager(u, site) ==
    LET pdf_content == CatchAll(TryDownload(u, site.http)).ret
        t == ExtractText(site.doc).ret
    IN IF ~pdf_content.some \/ NotText(t)
       THEN [ret |-> None, stages |-> <<"fetch", "extract">>]
       ELSE [ret |-> Some([full_text |-> t.value, sections |-> SectionMap(t.value)]),
             stages |-> <<"fetch", "extract", "segment">>]

\* process_pdf(url): the result, and the stages that were run
ProcessPdf(u, site) ==
    LET pdf_content == CatchAll(TryDownload(u, site.http)).ret IN
    IF ~pdf_content.some THEN [ret |-> None, stages |-> <<"fetch">>]
    ELSE LET t == ExtractText(site.doc).ret IN
         IF NotText(t) THEN [ret |-> None, stages |-> <<"fetch", "extract">>]
         ELSE [ret |-> Some([full_text |-> t.value, sections |-> SectionMap(t.value)]),
               stages |-> <<"fetch", "extract", "segment">>]

Event(e, i) == [ev |-> e, paper |-> i]
Events(es, i) == [k \in 1..Len(es) |-> Event(es[k], i)]

\* the three assignments without the third
AttachWithoutFigures(p, d) ==
    [p EXCEPT !.content = Some(d.full_text), !.sections = Some(d.sections)]

\* paper["content"], paper["sections"], paper["figures_tables"] = ...
Attach(p, d) ==
    [p EXCEPT !.content = Some(d.full_text),
              !.sections = Some(d.sections),
              !.figures_tables = Some(FiguresTables(d.full_text))]

\* a second request for the URL after a failed one
FetchAgain(r) ==
    IF r.ret.some THEN r.stages ELSE <<"fetch">> \o r.stages

\* the stages of one process_pdf call, as they were run
FetchOnce(r) == r.stages

\* an else branch that clears the fields of a paper that could not be processed
AfterPdfClearing(p, r) ==
    IF r.ret.some THEN Attach(p, r.ret.value)
    ELSE [p EXCEPT !.content = None, !.sections = None, !.figures_tables = None]

\* the body of the if pdf_data / else
AfterPdf(p, r) == IF r.ret.some THEN Attach(p, r.ret.value) ELSE p

AfterPdfEvents(r) == IF r.ret.some THEN <<"figures">> ELSE <<"warning">>

\* an append that skips the pause
AppendOnly == <<"append">>

\* processed_papers.append(paper); time.sleep(random.uniform(1.0, 2.0))
AppendAndSleep == <<"append", "sleep">>

PaperText == <<"M","e","t","h","o","d","\n","F","i","g"," ","1",":"," ","a","."," ","b">>

\* a page text without a section heading and without a reference
PlainText == <<"x"," ","y">>

Site(h, d) == [http |-> h, doc |-> d]

\* the URL was not requested
NoSite == Site(NoHttp, NoPdf)

\* what a URL may serve when it is requested
Sites ==
    { Site(HttpError("Timeout"), NoPdf),
      Site(HttpResponse(404, PdfMime, <<>>), NoPdf),
      Site(HttpResponse(200, <<"t","e","x","t","/","h","t","m","l">>, <<"<","h","t","m","l",">">>), NoPdf),
      Site(HttpResponse(200, PdfMime, <<"j","u","n","k">>), NoPdf),
      Site(HttpResponse(200, PdfMime, <<"%","P","D","F","0">>), PdfDoc(<<>>)),
      Site(HttpResponse(200, PdfMime, <<"%","P","D","F","1">>), PdfDoc(<<PageOk(PaperText)>>)),
      Site(HttpResponse(200, PdfMime, <<"%","P","D","F","3">>), PdfDoc(<<PageOk(PlainText)>>)),
      Site(HttpResponse(200, PdfMime, <<"%","P","D","F","2">>), PdfDoc(<<PageOk(PaperText), PageThrows>>)) }

\* one pass of the for loop body, for papers[paper_idx]
ProcessPaper ==
    /\ pc = "ready"
    /\ paper_idx <= Len(papers)
    /\ LET i == paper_idx
           p == papers[i]
       IN IF fetch_content /\ p.url.some /\ p.url.value # <<>>
          THEN IF ~p.title.some
               THEN \* paper['title'] raises KeyError: the except clause logs it
                    /\ log' = log \o Events(<<"error">>, i)
                    /\ UNCHANGED <<papers, processed_papers, served>>
               ELSE \E site \in Sites :
                    LET r == ProcessPdf(p.url.value, site) IN
                    /\ served' = [served EXCEPT ![i] = site]
                    /\ papers' = [papers EXCEPT ![i] = AfterPdf(p, r)]
                    /\ processed_papers' = Append(processed_papers, i)
                    /\ log' = log \o Events(FetchOnce(r) \o AfterPdfEvents(r)
                                               \o AppendAndSleep, i)
          ELSE /\ processed_papers' = Append(processed_papers, i)
               /\ log' = log \o Events(AppendAndSleep, i)
               /\ UNCHANGED <<papers, served>>
    /\ paper_idx' = paper_idx + 1
    /\ UNCHANGED <<pc, papers_in, fetch_content, text, segVars, figVars, fetchVars,
                   extractVars, storeVars, callVars, llmVars, searchVars>>

\* return processed_papers
ReturnPapers ==
    /\ pc = "ready"
    /\ paper_idx > Len(papers)
    /\ pc' = "done"
    /\ UNCHANGED <<text, segVars, figVars, fetchVars, extractVars, pipeVars, storeVars, callVars, llmVars, searchVars>>

-----------------------------------------------------------------------------
(* Inputs of process_papers: batches of at most MaxPapers papers.          *)

MaxPapers == 2

PaperUrl == <<"h","/","a">>
Paper(t, u) ==
    [title |-> t, url |-> u, content |-> None, sections |-> None,
     figures_tables |-> None]

PaperKinds ==
    { Paper(Some(<<"T">>), Some(PaperUrl)),
      Paper(Some(<<"T">>), None),
      Paper(None, Some(PaperUrl)),
      Paper(None, None),
      [Paper(Some(<<"T">>), Some(PaperUrl)) EXCEPT !.content = Some(<<"o","l","d">>)] }

Batches(n) == UNION { [1..k -> PaperKinds] : k \in 0..n }

InitPipe ==
    /\ papers \in Batches(MaxPapers)
    /\ papers_in = papers
    /\ fetch_content \in BOOLEAN
    /\ paper_idx = 1
    /\ processed_papers = <<>>
    /\ log = <<>>
    /\ served = [k \in 1..Len(papers) |-> NoSite]
    /\ pc = "ready"
    /\ TextIdle
    /\ FetchIdle
    /\ ExtractIdle
    /\ StoreIdle
    /\ CallIdle
    /\ LlmIdle
    /\ SearchIdle

NextPipe == ProcessPaper \/ ReturnPapers

SpecPipe == InitPipe /\ [][NextPipe]_vars

-----------------------------------------------------------------------------
(* Neo4jClient.store_paper                                                 *)
(* A paper dict is a record whose published_date and year are None, Absent *)
(* or Some(value); the year is an integer, the date a string.              *)

DigitChars == <<"0", "1", "2", "3", "4", "5", "6", "7", "8", "9">>
DigitVal(c) == (CHOOSE k \in 1..Len(DigitChars) : DigitChars[k] = c) - 1

\* the number a run of decimal digits denotes
RECURSIVE NumVal(_)
NumVal(ds) ==
    IF ds = <<>> THEN 0
    ELSE NumVal(SubSeq(ds, 1, Len(ds) - 1)) * 10 + DigitVal(ds[Len(ds)])

Alt(v, next) == [val |-> v, next |-> next]
In(s, p, cs) == p <= Len(s) /\ s[p] \in cs
NonZero == {"1", "2", "3", "4", "5", "6", "7", "8", "9"}

\* %m at position p: 1[0-2] | 0[1-9] | [1-9], in the order the regex tries them
MonthAlts(s, p) ==
    (IF In(s, p, {"1"}) /\ In(s, p + 1, {"0", "1", "2"})
     THEN <<Alt(NumVal(SubSeq(s, p, p + 1)), p + 2)>> ELSE <<>>)
    \o (IF In(s, p, {"0"}) /\ In(s, p + 1, NonZero)
        THEN <<Alt(NumVal(SubSeq(s, p, p + 1)), p + 2)>> ELSE <<>>)
    \o (IF In(s, p, NonZero) THEN <<Alt(DigitVal(s[p]), p + 1)>> ELSE <<>>)

\* %d at position p: 3[0-1] | [1-2]\d | 0[1-9] | [1-9] | " "[1-9]
DayAlts(s, p) ==
    (IF In(s, p, {"3"}) /\ In(s, p + 1, {"0", "1"})
     THEN <<Alt(NumVal(SubSeq(s, p, p + 1)), p + 2)>> ELSE <<>>)
    \o (IF In(s, p, {"1", "2"}) /\ p + 1 <= Len(s) /\ IsDigit(s[p + 1])
        THEN <<Alt(NumVal(SubSeq(s, p, p + 1)), p + 2)>> ELSE <<>>)
    \o (IF In(s, p, {"0"}) /\ In(s, p + 1, NonZero)
        THEN <<Alt(DigitVal(s[p + 1]), p + 2)>> ELSE <<>>)
    \o (IF In(s, p, NonZero) THEN <<Alt(DigitVal(s[p]), p + 1)>> ELSE <<>>)
    \o (IF In(s, p, {" "}) /\ In(s, p + 1, NonZero)
        THEN <<Alt(DigitVal(s[p + 1]), p + 2)>> ELSE <<>>)

IsLeap(y) == y % 4 = 0 /\ (y % 100 # 0 \/ y % 400 = 0)

DaysIn(m, y) ==
    IF m = 2 THEN (IF IsLeap(y) THEN 29 ELSE 28)
    ELSE IF m \in {4, 6, 9, 11} THEN 30 ELSE 31

\* the month alternatives after which "-" and a day match
MonthDayAlts(s) ==
    SelectSeq(MonthAlts(s, 6), LAMBDA m : In(s, m.next, {"-"}) /\ DayAlts(s, m.next + 1) # <<>>)

\* datetime.strptime(s, '%Y-%m-%d').year, None for a ValueError: the regex
\* \d\d\d\d-(month)-(day) must match at the start and leave nothing over, and
\* the three numbers must be a date
Strptime(s) ==
    IF ~(Len(s) >= 5 /\ (\A k \in 1..4 : IsDigit(s[k])) /\ s[5] = "-") THEN None
    ELSE IF MonthDayAlts(s) = <<>> THEN None
    ELSE LET y == NumVal(SubSeq(s, 1, 4))
             m == MonthDayAlts(s)[1]
             d == DayAlts(s, m.next + 1)[1]
         IN IF d.next # Len(s) + 1 THEN None
            ELSE IF y < 1 \/ d.val > DaysIn(m.val, y) THEN None
            ELSE Some(y)

\* the characters of t that are not underscores
RECURSIVE NoUnderscores(_)
NoUnderscores(t) ==
    IF t = <<>> THEN <<>>
    ELSE IF Head(t) = "_" THEN NoUnderscores(Tail(t))
    ELSE <<Head(t)>> \o NoUnderscores(Tail(t))

\* digits, with single underscores between digits only
IsDigits(t) ==
    /\ t # <<>>
    /\ \A k \in 1..Len(t) : IsDigit(t[k]) \/ t[k] = "_"
    /\ IsDigit(t[1]) /\ IsDigit(t[Len(t)])
    /\ \A k \in 1..(Len(t) - 1) : ~(t[k] = "_" /\ t[k + 1] = "_")

\* int(t), None for a ValueError: whitespace around, an optional sign, digits
IntOf(t) ==
    LET u == Strip(t)
        signed == u # <<>> /\ u[1] \in {"+", "-"}
        ds == IF signed THEN Tail(u) ELSE u
    IN IF ~IsDigits(ds) THEN None
       ELSE IF signed /\ u[1] = "-" THEN Some(0 - NumVal(NoUnderscores(ds)))
       ELSE Some(NumVal(NoUnderscores(ds)))

\* s[:4]
First4(s) == SubSeq(s, 1, IF Len(s) < 4 THEN Len(s) ELSE 4)

\* paper_data['year'] after the conversion of the date, if there is a date
YearFromDate(pd) ==
    IF pd.published_date.some /\ pd.published_date.value # <<>>
    THEN LET s == pd.published_date.value IN
         IF Strptime(s).some THEN Strptime(s) ELSE IntOf(First4(s))
    ELSE pd.year

ConvertDate(pd) == [pd EXCEPT !.year = YearFromDate(pd)]

\* a query parameter the Cypher text names is not among the keys given
MissingParam(pd) == pd.published_date = Absent \/ pd.year = Absent

\* MERGE (p:Paper {paper_id: $paper_id}) ON CREATE SET ... ON MATCH SET ...
MergePaper(db, pd) ==
    LET node == IF pd.paper_id \in DOMAIN db
                THEN [db[pd.paper_id] EXCEPT !.title = pd.title,
                                              !.published_date = pd.published_date,
                                              !.year = pd.year]
                ELSE [title |-> pd.title, published_date |-> pd.published_date,
                      year |-> pd.year, content |-> pd.content]
    IN [k \in DOMAIN db \cup {pd.paper_id} |-> IF k = pd.paper_id THEN node ELSE db[k]]

\* an edge created whether or not the paper already belongs to the topic
CreateEdge(bs, e) == Append(bs, e)

\* MERGE (p)-[r:BELONGS_TO]->(t): the edge is created only if there is none
MergeEdge(bs, e) == IF \E k \in DOMAIN bs : bs[k] = e THEN bs ELSE Append(bs, e)

\* the graph: Paper nodes by paper_id, Topic names, BELONGS_TO edges
Db(ps, ts, bs) == [papers |-> ps, topics |-> ts, belongs |-> bs]

\* the query of store_paper, one transaction
MergeAll(db, pd, t) ==
    Db(MergePaper(db.papers, pd), db.topics \cup {t},
       MergeEdge(db.belongs, <<pd.paper_id, t>>))

\* store_paper(pd, t) on the graph db: the dict afterwards, the graph
\* afterwards and the value returned. When the driver is not up,
\* self.driver.session() raises and nothing was done; when a parameter is
\* missing, session.run raises after the date conversion.
StoreOutcome(pd, t, db, up) ==
    IF ~up THEN [paper_data |-> pd, db |-> db, ret |-> FALSE]
    ELSE LET pd2 == ConvertDate(pd) IN
         IF MissingParam(pd2) THEN [paper_data |-> pd2, db |-> db, ret |-> FALSE]
         ELSE [paper_data |-> pd2, db |-> MergeAll(db, pd2, t), ret |-> TRUE]

\* store_paper(paper_data, topic_name)
StorePaper ==
    /\ pc = "ready"
    /\ \E up \in BOOLEAN :
         LET o == StoreOutcome(paper_data, topic_name,
                               Db(db_papers, db_topics, db_belongs), up)
         IN /\ paper_data' = o.paper_data
            /\ db_papers' = o.db.papers
            /\ db_topics' = o.db.topics
            /\ db_belongs' = o.db.belongs
            /\ store_ret' = Some(o.ret)
    /\ pc' = "done"
    /\ UNCHANGED <<topic_name, text, segVars, figVars, fetchVars, extractVars, pipeVars,
                   callVars, llmVars, searchVars>>

-----------------------------------------------------------------------------
(* The other database calls: Neo4jClient.get_papers_by_topic,              *)
(* get_paper_by_id, get_topics, clear_topic_data and the DatabaseAgent     *)
(* methods that wrap them. A null property is None in the node.            *)

\* the characters of the titles in code point order
CodeOrder == UpperChars \o LowerChars
CodeOf(c) == CHOOSE k \in 1..Len(CodeOrder) : CodeOrder[k] = c

\* string comparison a <= b, character by character
RECURSIVE StrLeq(_, _)
StrLeq(a, b) ==
    IF a = <<>> THEN TRUE
    ELSE IF b = <<>> THEN FALSE
    ELSE IF Head(a) = Head(b) THEN StrLeq(Tail(a), Tail(b))
    ELSE CodeOf(Head(a)) < CodeOf(Head(b))

\* dict(paper_node.items()) for the node of paper pid
PaperDict(db, pid) ==
    [paper_id |-> pid, title |-> db.papers[pid].title,
     published_date |-> db.papers[pid].published_date,
     year |-> db.papers[pid].year, content |-> db.papers[pid].content]

\* AND p.year >= $year_from AND p.year <= $year_to, each only when the bound
\* is given; a comparison with a null year is not true
InRange(y, yf, yt) ==
    /\ yf.some => (y.some /\ y.value >= yf.value)
    /\ yt.some => (y.some /\ y.value <= yt.value)

\* MATCH (p:Paper)-[:BELONGS_TO]->(t:Topic {name: $topic_name}) WHERE ...:
\* one row per edge
MatchRows(db, t, yf, yt) ==
    LET es == SelectSeq(db.belongs,
                  LAMBDA e : e[2] = t /\ InRange(db.papers[e[1]].year, yf, yt))
    IN [k \in 1..Len(es) |-> PaperDict(db, es[k][1])]

\* ORDER BY p.year DESC, p.title: a may stand before b (a null year sorts
\* first in descending order)
OrderedBefore(a, b) ==
    IF a.year = b.year THEN StrLeq(a.title, b.title)
    ELSE IF ~a.year.some THEN TRUE
    ELSE IF ~b.year.some THEN FALSE
    ELSE a.year.value > b.year.value

Orderings(n) == { f \in [1..n -> 1..n] : \A i, j \in 1..n : f[i] = f[j] => i = j }

\* the lists the query may return: the rows in an order that satisfies ORDER
\* BY (rows that compare equal may come in either order)
QueryResults(db, t, yf, yt) ==
    LET rows == MatchRows(db, t, yf, yt)
        n == Len(rows)
    IN { [k \in 1..n |-> rows[f[k]]] : f \in
           { g \in Orderings(n) :
               \A i, j \in 1..n : i < j => OrderedBefore(rows[g[i]], rows[g[j]]) } }

\* p.get('year', 0) or 0
YearKey(p) == IF p.year.some THEN p.year.value ELSE 0

\* x put behind the elements whose key is not smaller
RECURSIVE InsertDesc(_, _)
InsertDesc(s, x) ==
    IF s = <<>> THEN <<x>>
    ELSE IF YearKey(Head(s)) >= YearKey(x) THEN <<Head(s)>> \o InsertDesc(Tail(s), x)
    ELSE <<x>> \o s

RECURSIVE SortFrom(_, _, _)
SortFrom(rows, i, acc) ==
    IF i > Len(rows) THEN acc ELSE SortFrom(rows, i + 1, InsertDesc(acc, rows[i]))

\* an ascending sort turned round
RECURSIVE InsertAsc(_, _)
InsertAsc(s, x) ==
    IF s = <<>> THEN <<x>>
    ELSE IF YearKey(Head(s)) <= YearKey(x) THEN <<Head(s)>> \o InsertAsc(Tail(s), x)
    ELSE <<x>> \o s

RECURSIVE SortAscFrom(_, _, _)
SortAscFrom(rows, i, acc) ==
    IF i > Len(rows) THEN acc ELSE SortAscFrom(rows, i + 1, InsertAsc(acc, rows[i]))

SortThenReverse(rows) ==
    LET s == SortAscFrom(rows, 1, <<>>) IN [k \in 1..Len(s) |-> s[Len(s) + 1 - k]]

\* papers.sort(key=lambda p: p.get('year', 0) or 0, reverse=True): stable
SortByYear(rows) == SortFrom(rows, 1, <<>>)

\* DatabaseAgent.get_papers_by_topic(topic, year_from, year_to): the lists it
\* may return
AgentPapers(db, t, yf, yt) == { SortByYear(rows) : rows \in QueryResults(db, t, yf, yt) }

\* get_paper_by_id(paper_id)
PaperById(db, pid) == IF pid \in DOMAIN db.papers THEN Some(PaperDict(db, pid)) ELSE None

\* the topic names in ascending order
TopicNames == <<"cv", "nlp">>

\* get_topics(): MATCH (t:Topic) RETURN t.name ORDER BY t.name
TopicList(db) == SelectSeq(TopicNames, LAMBDA n : n \in db.topics)

\* the papers with an edge to topic t
MembersOf(db, t) == { db.belongs[k][1] : k \in { j \in DOMAIN db.belongs : db.belongs[j][2] = t } }

\* a deletion of the edges to the topic only, and of the papers left without a topic
DeleteTopicEdges(db, t) ==
    LET bs == SelectSeq(db.belongs, LAMBDA e : e[2] # t)
        keep == { bs[k][1] : k \in DOMAIN bs }
    IN Db([k \in keep |-> db.papers[k]], db.topics, bs)

\* a deletion of every paper, whatever its topic
DeleteEveryPaper(db, t) == Db(<<>>, db.topics, <<>>)

\* MATCH (p:Paper)-[r:BELONGS_TO]->(t:Topic {name: $topic_name}) DETACH DELETE p
DetachDelete(db, t) ==
    LET gone == MembersOf(db, t)
    IN Db([k \in DOMAIN db.papers \ gone |-> db.papers[k]], db.topics,
          SelectSeq(db.belongs, LAMBDA e : e[1] \notin gone))

Call(op, t, pid, yf, yt) ==
    [op |-> op, topic |-> t, paper_id |-> pid, year_from |-> yf, year_to |-> yt]

CurrentDb == Db(db_papers, db_topics, db_belongs)

\* no store_paper call is under way and the caller may make another call
CanCall(n) == pc \in {"idle", "done"} /\ ncalls < n

\* DatabaseAgent.store_papers(ps, t) from paper i on: the dicts afterwards,
\* the graph afterwards and the count returned; ups[i] tells whether the
\* driver is up when paper i is stored
RECURSIVE StorePapersFrom(_, _, _, _, _, _)
StorePapersFrom(ps, i, t, db, ups, count) ==
    IF i > Len(ps) THEN [papers |-> ps, db |-> db, count |-> count]
    ELSE LET o == StoreOutcome(ps[i], t, db, ups[i])
         IN StorePapersFrom([ps EXCEPT ![i] = o.paper_data], i + 1, t, o.db, ups,
                            IF o.ret THEN count + 1 ELSE count)

StorePapersOutcome(ps, t, db, ups) == StorePapersFrom(ps, 1, t, db, ups, 0)

\* the database is reachable, or not, for every paper of one store_papers call
DriverUp(ps, up) == [k \in 1..Len(ps) |-> up]

-----------------------------------------------------------------------------
(* Inputs of store_paper: dates of at most MaxDateTokens tokens.           *)

MaxDateTokens == 3

DateTokens == { <<"2","0","2","3">>, <<"-","0","5">>, <<"-","3","1">>, <<"-","2">>, <<"-">>, <<"_">>, <<" ">>, <<"x">>, <<"2","0">> }

DateExamples ==
    { <<"2","0","2","3","-","0","5","-","1","0">>, <<"2","0","2","3","-","0","2","-","2","9">>, <<"2","0","2","4","-","0","2","-","2","9">>, <<"2","0","2","3","/","0","5","/","1","0">>, <<"M","a","y"," ","2","0","2","3">>,
      <<"n","/","a">>, <<"0","0","0","0","-","0","1","-","0","1">>, <<"2","0","2","3","-","1","3","-","0","1">>, <<"2","0","2","3","-","0","0","-","1","0">>, <<"2","0","2","3","-","0","5","-"," ","1">>,
      <<"2","0","2","3","-","5","-","1">>, <<"2","0","2","3","-","0","5","-","1","0"," ">>, <<" ","2","0","2","3","-","0","5","-","1","0">>, <<"2","0","2","3","-","0","5","-","3","5">>, <<"+","2","0","2">>, <<"-","2","0","2">> }

DateTexts(n) == TokenTexts(DateTokens, n) \cup DateExamples

Dates(n) == { None, Absent } \cup { Some(s) : s \in DateTexts(n) }

YearsIn == { None, Absent, Some(2020) }

PaperData(d, y) ==
    [paper_id |-> "p1", title |-> <<"T">>, published_date |-> d, year |-> y,
     content |-> None]

\* the database before the call: empty, or holding the paper from an earlier store
Databases ==
    { <<>>,
      [k \in {"p1"} |-> [title |-> <<"S">>, published_date |-> Some(<<"1","9","9","9","-","0","1","-","0","1">>),
                         year |-> Some(1999), content |-> Some(<<"o","l","d">>)]] }

InitStore ==
    /\ \E d \in Dates(MaxDateTokens), y \in YearsIn : paper_data = PaperData(d, y)
    /\ topic_name = "nlp"
    /\ db_papers \in Databases
    /\ db_topics = (IF db_papers = <<>> THEN {} ELSE {"nlp"})
    /\ db_belongs = (IF db_papers = <<>> THEN <<>> ELSE <<(<<"p1", "nlp">>)>>)
    /\ store_ret = None
    /\ pc = "ready"
    /\ TextIdle
    /\ FetchIdle
    /\ ExtractIdle
    /\ PipeIdle
    /\ CallIdle
    /\ LlmIdle
    /\ SearchIdle

NextStore == StorePaper

SpecStore == InitStore /\ [][NextStore]_vars

-----------------------------------------------------------------------------
(* Sequences of database calls, at most MaxCalls of them.                  *)

MaxCalls == 3

Topics == {"nlp", "cv"}
PaperIds == {"p1", "p2"}
YearFroms == { None, Some(2020) }
YearTos == { None, Some(2019) }

PaperRec(pid, t, d, y, c) ==
    [paper_id |-> pid, title |-> t, published_date |-> d, year |-> y, content |-> c]

\* the paper dicts the callers hand over
PaperVersions ==
    { PaperRec("p1", <<"A">>, Some(<<"2","0","2","0","-","0","1","-","0","1">>), None, None),
      PaperRec("p1", <<"B">>, Some(<<"2","0","1","9">>), None, Some(<<"c">>)),
      PaperRec("p2", <<"B">>, Some(<<"2","0","2","0","-","0","1","-","0","1">>), None, None),
      PaperRec("p2", <<"A">>, None, None, None) }

\* the lists of paper dicts handed to store_papers
PaperLists ==
    { <<>>,
      <<PaperRec("p1", <<"A">>, Some(<<"2","0","2","0","-","0","1","-","0","1">>), None, None),
        PaperRec("p2", <<"B">>, Some(<<"2","0","2","0","-","0","1","-","0","1">>), None, None)>>,
      <<PaperRec("p2", <<"A">>, None, None, None),
        PaperRec("p1", <<"B">>, Some(<<"2","0","1","9">>), None, Some(<<"c">>))>> }

\* the caller hands a paper dict and a topic to store_paper
GivePaper(n) ==
    /\ CanCall(n)
    /\ \E pd \in PaperVersions, t \in Topics :
         /\ paper_data' = pd
         /\ topic_name' = t
         /\ db_call' = Call("store_paper", t, pd.paper_id, None, None)
    /\ store_ret' = None
    /\ db_ret' = Returned(None)
    /\ pc' = "ready"
    /\ ncalls' = ncalls + 1
    /\ UNCHANGED <<db_papers, db_topics, db_belongs,
                   text, segVars, figVars, fetchVars, extractVars, pipeVars,
                   llmVars, searchVars>>

\* DatabaseAgent.store_papers(papers, topic)
StorePapers(n) ==
    /\ CanCall(n)
    /\ \E ps \in PaperLists, t \in Topics, up \in BOOLEAN :
         LET o == StorePapersOutcome(ps, t, CurrentDb, DriverUp(ps, up))
         IN /\ db_papers' = o.db.papers
            /\ db_topics' = o.db.topics
            /\ db_belongs' = o.db.belongs
            /\ db_call' = Call("store_papers", t, "", None, None)
            /\ db_ret' = Returned(Some(o.count))
    /\ pc' = "done"
    /\ ncalls' = ncalls + 1
    /\ UNCHANGED <<paper_data, topic_name, store_ret,
                   text, segVars, figVars, fetchVars, extractVars, pipeVars,
                   llmVars, searchVars>>

\* DatabaseAgent.clear_topic_data(topic)
ClearTopicData(n) ==
    /\ CanCall(n)
    /\ \E t \in Topics, up \in BOOLEAN :
         LET db == IF up THEN DetachDelete(CurrentDb, t) ELSE CurrentDb
         IN /\ db_papers' = db.papers
            /\ db_topics' = db.topics
            /\ db_belongs' = db.belongs
            /\ db_call' = Call("clear_topic_data", t, "", None, None)
            /\ db_ret' = Returned(Some(up))
    /\ pc' = "done"
    /\ ncalls' = ncalls + 1
    /\ UNCHANGED <<paper_data, topic_name, store_ret,
                   text, segVars, figVars, fetchVars, extractVars, pipeVars,
                   llmVars, searchVars>>

\* a query ends with its value, or with the driver's exception when the
\* database cannot be reached (the query methods have no except clause)
QueryEnds(up, values) ==
    IF up THEN \E v \in values : db_ret' = Returned(Some(v))
    ELSE db_ret' = Raised("ServiceUnavailable")

\* DatabaseAgent.get_papers_by_topic(topic, year_from, year_to)
GetPapersByTopic(n) ==
    /\ CanCall(n)
    /\ \E t \in Topics, yf \in YearFroms, yt \in YearTos, up \in BOOLEAN :
         /\ db_call' = Call("get_papers_by_topic", t, "", yf, yt)
         /\ QueryEnds(up, AgentPapers(CurrentDb, t, yf, yt))
    /\ pc' = "done"
    /\ ncalls' = ncalls + 1
    /\ UNCHANGED <<storeVars, text, segVars, figVars, fetchVars, extractVars, pipeVars,
                   llmVars, searchVars>>

\* DatabaseAgent.get_paper_by_id(paper_id)
GetPaperById(n) ==
    /\ CanCall(n)
    /\ \E pid \in PaperIds, up \in BOOLEAN :
         /\ db_call' = Call("get_paper_by_id", "", pid, None, None)
         /\ IF up THEN db_ret' = Returned(PaperById(CurrentDb, pid))
            ELSE db_ret' = Raised("ServiceUnavailable")
    /\ pc' = "done"
    /\ ncalls' = ncalls + 1
    /\ UNCHANGED <<storeVars, text, segVars, figVars, fetchVars, extractVars, pipeVars,
                   llmVars, searchVars>>

\* DatabaseAgent.get_all_topics()
GetAllTopics(n) ==
    /\ CanCall(n)
    /\ \E up \in BOOLEAN :
         /\ db_call' = Call("get_topics", "", "", None, None)
         /\ QueryEnds(up, {TopicList(CurrentDb)})
    /\ pc' = "done"
    /\ ncalls' = ncalls + 1
    /\ UNCHANGED <<storeVars, text, segVars, figVars, fetchVars, extractVars, pipeVars,
                   llmVars, searchVars>>

InitDb ==
    /\ StoreIdle
    /\ CallIdle
    /\ pc = "idle"
    /\ TextIdle
    /\ FetchIdle
    /\ ExtractIdle
    /\ PipeIdle
    /\ LlmIdle
    /\ SearchIdle

NextDb ==
    \/ GivePaper(MaxCalls)
    \/ StorePaper
    \/ StorePapers(MaxCalls)
    \/ ClearTopicData(MaxCalls)
    \/ GetPapersByTopic(MaxCalls)
    \/ GetPaperById(MaxCalls)
    \/ GetAllTopics(MaxCalls)

SpecDb == InitDb /\ [][NextDb]_vars

-----------------------------------------------------------------------------
(* The inference calls of QAAgent and FutureWorksAgent. ollama.chat either  *)
(* returns a response, raises, or returns a response without the message    *)
(* content, on which the subscript raises KeyError.                         *)

Completion(c) == [kind |-> "content", type |-> "", msg |-> <<>>, content |-> c]
ChatRaises(ty, m) == [kind |-> "raises", type |-> ty, msg |-> m, content |-> <<>>]
Malformed == [kind |-> "malformed", type |-> "", msg |-> <<>>, content |-> <<>>]

Exc(ty, m) == [type |-> ty, msg |-> m]

\* response = ollama.chat(...); response["message"]["content"]
ChatContent(reply) ==
    CASE reply.kind = "content" -> [exc |-> Exc("", <<>>), value |-> reply.content]
      [] reply.kind = "raises" -> [exc |-> Exc(reply.type, reply.msg), value |-> <<>>]
      [] OTHER -> [exc |-> Exc("KeyError", <<"'","m","e","s","s","a","g","e","'">>), value |-> <<>>]

\* an except clause for transport errors only
CaughtTransportOnly(e) == e.type = "ConnectError"

\* except Exception as e: every exception an inference call ends with is one
Caught(e) == e.type \in {"ConnectError", "ReadTimeout", "ResponseError", "KeyError"}

AskFailed == <<"E","r","r","o","r",":"," ","F","a","i","l","e","d"," ","t","o"," ","g","e","t"," ","a"," ","r","e","s","p","o","n","s","e"," ","f","r","o","m"," ","t","h","e"," ","m","o","d","e","l","."," ">>
ErrorColon == <<"E","r","r","o","r",":"," ">>
NoPapers == <<"N","o"," ","p","a","p","e","r","s"," ","p","r","o","v","i","d","e","d"," ","f","o","r"," ","r","e","f","e","r","e","n","c","e",".">>

\* _ask_llm(prompt), the same code in both agents
AskLlm(reply) ==
    LET r == ChatContent(reply) IN
    IF r.exc.type = "" THEN Payload("", <<>>, r.value)
    ELSE IF Caught(r.exc) THEN Payload("", <<>>, AskFailed \o r.exc.msg)
    ELSE Propagated(r.exc)

\* ', '.join(paper_ids)
RECURSIVE JoinIds(_)
JoinIds(ids) ==
    IF ids = <<>> THEN <<>>
    ELSE IF Len(ids) = 1 THEN ids[1]
    ELSE ids[1] \o <<","," ">> \o JoinIds(Tail(ids))

Digit(d) == <<"0","1","2","3","4","5","6","7","8","9">>[d + 1]

\* str(n) for n >= 0
RECURSIVE StrOfNat(_)
StrOfNat(n) == IF n < 10 THEN <<Digit(n)>> ELSE StrOfNat(n \div 10) \o <<Digit(n % 10)>>

AnswerPrompt(question, paper_ids) ==
    <<"A","n","s","w","e","r"," ","t","h","e"," ","q","u","e","s","t","i","o","n"," ","b","a","s","e","d"," ","o","n"," ","p","a","p","e","r","s",":"," ">> \o JoinIds(paper_ids) \o <<".">> \o <<"\n">>
        \o <<"Q","u","e","s","t","i","o","n",":"," ">> \o question

FutureWorkPrompt(topic, years_back) ==
    <<"G","e","n","e","r","a","t","e"," ","f","u","t","u","r","e"," ","r","e","s","e","a","r","c","h"," ","i","d","e","a","s"," ","f","o","r"," ","t","h","e"," ","t","o","p","i","c",":"," ">> \o topic
        \o <<" ","b","a","s","e","d"," ","o","n"," ","r","e","s","e","a","r","c","h"," ","f","r","o","m"," ","t","h","e"," ","p","a","s","t"," ">> \o StrOfNat(years_back) \o <<" ","y","e","a","r","s",".">>

\* answer_question(question, paper_ids): _ask_llm inside a try of its own
AnswerOutcome(question, reply) ==
    LET a == AskLlm(reply) IN
    IF a.exc = "" THEN Payload("answer", question, a.text)
    ELSE IF Caught(Exc(a.exc, reply.msg)) THEN Payload("answer", question, ErrorColon \o reply.msg)
    ELSE a

\* generate_future_work(topic, years_back): ollama.chat inside the try
FutureWorkOutcome(topic, reply) ==
    LET r == ChatContent(reply) IN
    IF r.exc.type = "" THEN Payload("future_work", topic, r.value)
    ELSE IF Caught(r.exc) THEN Payload("future_work", topic, ErrorColon \o r.exc.msg)
    ELSE Propagated(r.exc)

-----------------------------------------------------------------------------
(* Inputs of the inference calls.                                           *)

MaxPaperIds == 2

Messages == { <<"r","e","f","u","s","e","d">>, <<"t","i","m","e","d"," ","o","u","t">>, <<>> }

Replies ==
    { Completion(<<"o","k">>), Completion(<<>>), Completion(<<"E","r","r","o","r",":"," ","x">>), Malformed }
      \cup { ChatRaises(ty, m) : ty \in {"ConnectError", "ReadTimeout", "ResponseError"},
                                 m \in Messages }

Prompts == { <<"h","i">>, <<>> }
Questions == { <<"q">>, <<>> }
TopicTexts == { <<"n","l","p">>, <<"c","v">> }
YearsBack == { 5, 10 }
IdTexts == { <<"p","1">>, <<"p","2">> }
IdLists(n) == UNION { [1..k -> IdTexts] : k \in 0..n }

LlmCall(op, prompt) == [op |-> op, prompt |-> prompt]

\* QAAgent._ask_llm(prompt)
QAAskLlm ==
    /\ pc \in {"idle", "done"}
    /\ \E prompt \in Prompts, reply \in Replies :
         /\ llm_op' = LlmCall("QAAgent._ask_llm", prompt)
         /\ llm_reply' = reply
         /\ llm_ret' = AskLlm(reply)
    /\ pc' = "done"
    /\ UNCHANGED <<text, segVars, figVars, fetchVars, extractVars, pipeVars,
                   storeVars, callVars, searchVars>>

\* FutureWorksAgent._ask_llm(prompt)
FWAskLlm ==
    /\ pc \in {"idle", "done"}
    /\ \E prompt \in Prompts, reply \in Replies :
         /\ llm_op' = LlmCall("FutureWorksAgent._ask_llm", prompt)
         /\ llm_reply' = reply
         /\ llm_ret' = AskLlm(reply)
    /\ pc' = "done"
    /\ UNCHANGED <<text, segVars, figVars, fetchVars, extractVars, pipeVars,
                   storeVars, callVars, searchVars>>

\* QAAgent.answer_question(question, paper_ids)
AnswerQuestion(n) ==
    /\ pc \in {"idle", "done"}
    /\ \E question \in Questions, paper_ids \in IdLists(n) :
         IF paper_ids = <<>>
         THEN /\ llm_op' = LlmCall("answer_question", <<>>)
              /\ llm_reply' = NoReply
              /\ llm_ret' = Payload("answer", question, NoPapers)
         ELSE \E reply \in Replies :
              /\ llm_op' = LlmCall("answer_question", AnswerPrompt(question, paper_ids))
              /\ llm_reply' = reply
              /\ llm_ret' = AnswerOutcome(question, reply)
    /\ pc' = "done"
    /\ UNCHANGED <<text, segVars, figVars, fetchVars, extractVars, pipeVars,
                   storeVars, callVars, searchVars>>

\* FutureWorksAgent.generate_future_work(topic, years_back)
GenerateFutureWork ==
    /\ pc \in {"idle", "done"}
    /\ \E topic \in TopicTexts, years_back \in YearsBack, reply \in Replies :
         /\ llm_op' = LlmCall("generate_future_work", FutureWorkPrompt(topic, years_back))
         /\ llm_reply' = reply
         /\ llm_ret' = FutureWorkOutcome(topic, reply)
    /\ pc' = "done"
    /\ UNCHANGED <<text, segVars, figVars, fetchVars, extractVars, pipeVars,
                   storeVars, callVars, searchVars>>

InitLlm ==
    /\ LlmIdle
    /\ pc = "idle"
    /\ TextIdle
    /\ FetchIdle
    /\ ExtractIdle
    /\ PipeIdle
    /\ StoreIdle
    /\ CallIdle
    /\ SearchIdle

NextLlm ==
    \/ QAAskLlm
    \/ FWAskLlm
    \/ AnswerQuestion(MaxPaperIds)
    \/ GenerateFutureWork

SpecLlm == InitLlm /\ [][NextLlm]_vars

-----------------------------------------------------------------------------
(* POST /search (main.search_papers), the background task it may leave,     *)
(* and GET /papers/{topic}.                                                 *)

\* a step of a request: what was done, for which request, with which papers
Ev(e, r, fc, ps) == [ev |-> e, req |-> r, fetch_content |-> fc, papers |-> ps]

\* the number of /search requests handled so far
NRequests == Cardinality({ k \in DOMAIN trace : trace[k].ev = "search" })

\* a paper dict as search_arxiv builds it: the date formatted with
\* "%Y-%m-%d", the year of that date, no content
ArxivPaper(pid, t, d) == PaperRec(pid, t, Some(d), Strptime(d), None)

\* a branch condition that looks at fetch_content only
DeferredAlways(fc, ps) == fc

\* if request.fetch_content and papers
Deferred(fc, ps) == fc /\ ps # <<>>

\* f"Processing {len(papers)} papers in background." / f"Stored {len(papers)} papers."
ProcessingMessage(ps) == <<"P","r","o","c","e","s","s","i","n","g"," ">> \o StrOfNat(Len(ps)) \o <<" ","p","a","p","e","r","s"," ","i","n"," ","b","a","c","k","g","r","o","u","n","d",".">>
StoredMessage(ps) == <<"S","t","o","r","e","d"," ">> \o StrOfNat(Len(ps)) \o <<" ","p","a","p","e","r","s",".">>

Task(r, ps, t) == [req |-> r, papers |-> ps, topic |-> t]

-----------------------------------------------------------------------------
(* Inputs of /search: what search_arxiv returns (the empty list also when   *)
(* the search failed) and the number of requests.                           *)

MaxRequests == 2

SearchTopics == {"nlp"}

SearchResults ==
    { <<>>,
      <<ArxivPaper("p1", <<"A">>, <<"2","0","2","0","-","0","1","-","0","1">>)>>,
      <<ArxivPaper("p2", <<"B">>, <<"2","0","2","1","-","0","6","-","3","0">>), ArxivPaper("p1", <<"A">>, <<"2","0","2","0","-","0","1","-","0","1">>)>> }

\* POST /search. search_arxiv and store_papers catch every exception, so the
\* handler's except clause is not reached.
SearchPapers(n) ==
    /\ pc \in {"idle", "done"}
    /\ NRequests < n
    /\ \E topic \in SearchTopics, fc \in BOOLEAN, ps \in SearchResults :
         LET r == NRequests + 1 IN
         /\ request' = [topic |-> topic, fetch_content |-> fc]
         /\ found' = ps
         /\ IF Deferred(fc, ps)
            THEN /\ background' = Append(background, Task(r, ps, topic))
                 /\ response' = Some([message |-> ProcessingMessage(ps), papers |-> ps])
                 /\ trace' = trace \o <<Ev("search", r, fc, ps), Ev("add_task", r, fc, ps),
                                        Ev("response", r, fc, ps)>>
                 /\ UNCHANGED <<db_papers, db_topics, db_belongs>>
            ELSE \E up \in BOOLEAN :
                 LET o == StorePapersOutcome(ps, topic, CurrentDb, DriverUp(ps, up)) IN
                 /\ db_papers' = o.db.papers
                 /\ db_topics' = o.db.topics
                 /\ db_belongs' = o.db.belongs
                 /\ response' = Some([message |-> StoredMessage(ps), papers |-> o.papers])
                 /\ trace' = trace \o <<Ev("search", r, fc, ps), Ev("store_papers", r, fc, ps),
                                        Ev("response", r, fc, o.papers)>>
                 /\ UNCHANGED background
    /\ pc' = "done"
    /\ UNCHANGED <<paper_data, topic_name, store_ret, callVars,
                   text, segVars, figVars, fetchVars, extractVars, pipeVars, llmVars>>

\* the background task of a response already sent: store_papers(papers, topic)
RunBackgroundTask ==
    /\ background # <<>>
    /\ LET task == Head(background) IN
       \E up \in BOOLEAN :
         LET o == StorePapersOutcome(task.papers, task.topic, CurrentDb,
                                     DriverUp(task.papers, up)) IN
         /\ db_papers' = o.db.papers
         /\ db_topics' = o.db.topics
         /\ db_belongs' = o.db.belongs
         /\ trace' = Append(trace, Ev("store_papers", task.req, TRUE, task.papers))
    /\ background' = Tail(background)
    /\ UNCHANGED <<pc, paper_data, topic_name, store_ret, callVars, request, found, response,
                   text, segVars, figVars, fetchVars, extractVars, pipeVars, llmVars>>

\* GET /papers/{topic} without year bounds, for the topic of the request, asked
\* right after its response
TopicPapers ==
    /\ trace # <<>>
    /\ trace[Len(trace)].ev = "response"
    /\ \E t \in {request.topic}, up \in BOOLEAN :
         /\ db_call' = Call("get_papers_by_topic", t, "", None, None)
         /\ IF up THEN \E v \in AgentPapers(CurrentDb, t, None, None) :
                          db_ret' = Returned(Some(v))
            ELSE db_ret' = Raised("HTTPException")
    /\ trace' = Append(trace, Ev("lookup", NRequests, FALSE, <<>>))
    /\ UNCHANGED <<pc, ncalls, storeVars, request, found, response, background,
                   text, segVars, figVars, fetchVars, extractVars, pipeVars, llmVars>>

InitSearch ==
    /\ SearchIdle
    /\ pc = "idle"
    /\ StoreIdle
    /\ CallIdle
    /\ TextIdle
    /\ FetchIdle
    /\ ExtractIdle
    /\ PipeIdle
    /\ LlmIdle

NextSearch ==
    \/ SearchPapers(MaxRequests)
    \/ RunBackgroundTask
    \/ TopicPapers

SpecSearch == InitSearch /\ [][NextSearch]_vars

-----------------------------------------------------------------------------
(* Properties of extract_sections, checked under SpecSeg.                  *)

Done == pc = "done"
NMatches == Len(matches)

\* match i is the last one whose group(1) is that text
IsLastOfName(i) == \A j \in (i + 1)..NMatches : matches[j].name # matches[i].name

\* the first position after the region of heading i, counted from heading to
\* heading: the first letter of the next recognized heading, or end-of-text
NextHeading(i) == IF i < NMatches THEN matches[i + 1].hstart ELSE Len(text) + 1

\* the text from the first letter of heading i up to the next recognized heading
HeadingSpan(i) == SubSeq(text, matches[i].hstart, NextHeading(i) - 1)

IntroExample == <<"I","n","t","r","o","d","u","c","t","i","o","n","\n","f","o","o","\n","M","e","t","h","o","d","\n","b","a","r">>
KeyIntroduction == <<"I","n","t","r","o","d","u","c","t","i","o","n">>
KeyMethod == <<"M","e","t","h","o","d">>

\* C1 as stated: each recognized heading is mapped to exactly the text from the
\* heading up to the next recognized heading (or end-of-text), untrimmed, and
\* the example text gives "Introduction\nfoo\n" and "Method\nbar".
C1_ExactSubstring ==
    (Done /\ NMatches > 0) =>
        /\ \A i \in 1..NMatches :
              IsLastOfName(i) => sections[matches[i].name] = HeadingSpan(i)
        /\ text = IntroExample =>
              sections = (KeyIntroduction :> <<"I","n","t","r","o","d","u","c","t","i","o","n","\n","f","o","o","\n">>)
                             @@ (KeyMethod :> <<"M","e","t","h","o","d","\n","b","a","r">>)

\* C1 (amended): the keys are exactly the recognized headings, and each is mapped
\* to the text from the heading up to the next recognized heading (or
\* end-of-text) with leading and trailing whitespace removed; the example text
\* gives {"Introduction": "Introduction\nfoo", "Method": "Method\nbar"}.
C1_TrimmedSubstring ==
    (Done /\ NMatches > 0) =>
        /\ DOMAIN sections = { matches[i].name : i \in 1..NMatches }
        /\ \A i \in 1..NMatches :
              IsLastOfName(i) => sections[matches[i].name] = Strip(HeadingSpan(i))
        /\ text = IntroExample =>
              sections = (KeyIntroduction :> <<"I","n","t","r","o","d","u","c","t","i","o","n","\n","f","o","o">>)
                             @@ (KeyMethod :> <<"M","e","t","h","o","d","\n","b","a","r">>)

\* C1 witness: two headings were recognized and the span of the first one ends
\* in whitespace that the stored value does not have.
C1_Witness ==
    /\ Done
    /\ NMatches >= 2
    /\ matches[1].name # matches[2].name
    /\ HeadingSpan(1) # Strip(HeadingSpan(1))
    /\ sections[matches[1].name] = Strip(HeadingSpan(1))

\* C2: when no heading is recognized the result has the single key "Full Text",
\* mapped to the input text unchanged.
C2_FullText ==
    (Done /\ NMatches = 0) =>
        /\ DOMAIN sections = {FullTextKey}
        /\ sections[FullTextKey] = text

\* C2 witness: no heading recognized in a text with whitespace at its ends,
\* which is kept.
C2_Witness ==
    /\ Done
    /\ NMatches = 0
    /\ text # <<>>
    /\ Strip(text) # text
    /\ sections[FullTextKey] = text

\* C3: when one heading name is recognized more than once, the map has one
\* entry for it, holding the span that starts at its last occurrence.
C3_LastOccurrenceWins ==
    Done =>
        \A i, j \in 1..NMatches :
            (i < j /\ matches[i].name = matches[j].name /\ IsLastOfName(j)) =>
                /\ sections[matches[j].name] = Strip(HeadingSpan(j))
                /\ Cardinality({ k \in DOMAIN sections : k = matches[i].name }) = 1
                /\ Cardinality(DOMAIN sections) < NMatches

\* C3 witness: the same name was recognized twice with different contents, and
\* the stored value is the later one.
C3_Witness ==
    /\ Done
    /\ NMatches = 2
    /\ matches[1].name = matches[2].name
    /\ Strip(HeadingSpan(1)) # Strip(HeadingSpan(2))
    /\ sections[matches[1].name] = Strip(HeadingSpan(2))

\* a vocabulary heading occurs at position p: it is preceded by the start of
\* the text or a newline and followed by whitespace or a colon
HeadingOccursAt(p) ==
    /\ p = 1 \/ text[p - 1] = "\n"
    /\ HasHeading(text, p)

\* C4: every occurrence of a vocabulary heading that is preceded by
\* start-of-text or a newline and followed by whitespace or a colon is
\* recognized, also on the line directly after another recognized heading.
C4_EveryOccurrenceRecognized ==
    Done =>
        \A p \in 1..Len(text) :
            HeadingOccursAt(p) => \E i \in 1..NMatches : matches[i].hstart = p

\* the stored value of heading i lies in the text from the first letter of the
\* heading on and stops before the next recognized heading
ValueEnd(i) == matches[i].hstart + Len(sections[matches[i].name]) - 1

\* C5: the spans are contiguous and non-overlapping and start at the first
\* recognized heading: each span ends where the next one starts and the last
\* one at end-of-text, each stored value lies in the text from the first letter
\* of its heading to before the next recognized heading (so none holds a
\* character from before the first heading and no character is in two values),
\* and what lies between a value and the next heading is whitespace only.
C5_SpansPartition ==
    (Done /\ NMatches > 0) =>
        /\ \A i \in 1..NMatches :
              /\ matches[i].start < EndPos(text, matches, i)
              /\ EndPos(text, matches, i) =
                    (IF i < NMatches THEN matches[i + 1].start ELSE Len(text) + 1)
              /\ matches[i].hstart >= matches[1].hstart
        /\ \A i \in 1..NMatches :
              IsLastOfName(i) =>
                  /\ sections[matches[i].name] =
                        SubSeq(text, matches[i].hstart, ValueEnd(i))
                  /\ ValueEnd(i) < NextHeading(i)
                  /\ \A q \in (ValueEnd(i) + 1)..(NextHeading(i) - 1) : IsSpace(text[q])

\* C5 witness: text precedes the first recognized heading, two headings are
\* stored, and neither value reaches into the other or before the first heading.
C5_Witness ==
    /\ Done
    /\ NMatches = 2
    /\ matches[1].hstart > 2
    /\ matches[1].name # matches[2].name
    /\ ValueEnd(1) < matches[2].hstart
    /\ sections[matches[1].name] = SubSeq(text, matches[1].hstart, ValueEnd(1))

\* C6: for a non-empty text the returned map has at least one entry.
C6_NeverEmpty == (Done /\ text # <<>>) => DOMAIN sections # {}

\* C6 witness: a non-empty text without any recognized heading got its entry.
C6_Witness ==
    /\ Done
    /\ text # <<>>
    /\ NMatches = 0
    /\ Cardinality(DOMAIN sections) = 1

LowerSeq(s) == [i \in 1..Len(s) |-> Lower(s[i])]

\* the sixteen labels of the vocabulary as the specification lists them
VocabularyLabels ==
    { <<"A","b","s","t","r","a","c","t">>, <<"I","n","t","r","o","d","u","c","t","i","o","n">>, <<"R","e","l","a","t","e","d"," ","W","o","r","k">>, <<"B","a","c","k","g","r","o","u","n","d">>,
      <<"M","e","t","h","o","d","o","l","o","g","y">>, <<"M","e","t","h","o","d">>, <<"A","p","p","r","o","a","c","h">>, <<"E","x","p","e","r","i","m","e","n","t","s">>, <<"E","v","a","l","u","a","t","i","o","n">>,
      <<"R","e","s","u","l","t","s"," ","a","n","d"," ","D","i","s","c","u","s","s","i","o","n">>, <<"R","e","s","u","l","t","s">>, <<"D","i","s","c","u","s","s","i","o","n">>, <<"C","o","n","c","l","u","s","i","o","n">>,
      <<"F","u","t","u","r","e"," ","W","o","r","k">>, <<"R","e","f","e","r","e","n","c","e","s">>, <<"A","p","p","e","n","d","i","x">> }

\* C7 as stated: every key is "Full Text" or, ignoring case, one of the sixteen
\* listed labels.
C7_KeysInListedVocabulary ==
    Done =>
        \A k \in DOMAIN sections :
            k = FullTextKey \/ \E v \in VocabularyLabels : LowerSeq(k) = LowerSeq(v)

\* C7 (amended): every key is "Full Text" or, ignoring case, a text one of the
\* heading patterns matches: a listed label, or Experiment, Result,
\* Conclusions, or Result/Results and/& Discussion.
C7_KeysMatchPatterns ==
    Done =>
        \A k \in DOMAIN sections :
            \/ k = FullTextKey /\ NMatches = 0
            \/ \E j \in 1..Len(section_patterns) :
                  LowerSeq(k) = LowerSeq(section_patterns[j])

\* C7 witness: a key outside the listed labels (the singular "Result") next to
\* a listed one.
C7_Witness ==
    /\ Done
    /\ KeyMethod \in DOMAIN sections
    /\ <<"R","e","s","u","l","t">> \in DOMAIN sections

-----------------------------------------------------------------------------
(* Properties of extract_figures_and_tables, checked under SpecFig.        *)

NFigures == Len(figure_matches)
NTables == Len(table_matches)

\* the match record number i of the returned list was built from
RefMatchOf(i) ==
    IF i <= NFigures THEN figure_matches[i] ELSE table_matches[i - NFigures]

\* the matches of one scan lie one after the other in the text
InDocumentOrder(ms) == \A i \in 1..(Len(ms) - 1) : ms[i].end <= ms[i + 1].start

\* C8: the list holds one record per figure match in document order, then one
\* record per table match in document order: no table record precedes a figure
\* record and no match is dropped, whatever its number.
C8_FiguresThenTables ==
    Done =>
        /\ Len(figures_tables) = NFigures + NTables
        /\ InDocumentOrder(figure_matches)
        /\ InDocumentOrder(table_matches)
        /\ \A i \in 1..Len(figures_tables) :
              /\ figures_tables[i].type = (IF i <= NFigures THEN "figure" ELSE "table")
              /\ figures_tables[i].text =
                    SubSeq(text, RefMatchOf(i).start, RefMatchOf(i).end - 1)
        /\ \A i, j \in 1..Len(figures_tables) :
              i < j => ~(figures_tables[i].type = "table" /\ figures_tables[j].type = "figure")

\* C8 witness: a table stands before the figures in the text and comes after
\* them in the list, and two figure records carry the same number.
C8_Witness ==
    /\ Done
    /\ NFigures >= 2
    /\ NTables >= 1
    /\ table_matches[1].start < figure_matches[1].start
    /\ figures_tables[1].number = figures_tables[2].number
    /\ figures_tables[1].type = "figure"
    /\ figures_tables[NFigures + 1].type = "table"

\* C9: the caption of every record is the text after the number (and after the
\* colon or period that may follow it) up to but not including the first
\* period, trimmed: it holds no period and no whitespace at its ends, what
\* follows the match is a period or the end of the text, and the example text
\* gives number "1" with caption "A plot of accuracy".
C9_CaptionUpToFirstPeriod ==
    Done =>
        /\ \A i \in 1..Len(figures_tables) :
              LET m == RefMatchOf(i)
                  r == m.numEnd + 1
                  c == figures_tables[i].caption
              IN  /\ \A j \in 1..Len(c) : c[j] # "."
                  /\ c = Strip(c)
                  /\ m.end = Len(text) + 1 \/ text[m.end] = "."
                  /\ figures_tables[i].number = SubSeq(text, m.numStart, m.numEnd)
                  /\ \A j \in m.numStart..m.numEnd : IsDigit(text[j])
                  /\ \/ c = Strip(SubSeq(text, r, m.end - 1))
                     \/ /\ text[r] \in {":", "."}
                        /\ c = Strip(SubSeq(text, r + 1, m.end - 1))
        /\ text = PlotExample =>
              figures_tables =
                  << [type |-> "figure", number |-> <<"1">>,
                      caption |-> <<"A"," ","p","l","o","t"," ","o","f"," ","a","c","c","u","r","a","c","y">>,
                      text |-> <<"F","i","g","u","r","e"," ","1",":"," ","A"," ","p","l","o","t"," ","o","f"," ","a","c","c","u","r","a","c","y">>] >>

\* C9 witness: a caption that was cut at a period with more text after it, and
\* that lost whitespace to the trimming.
C9_Witness ==
    /\ Done
    /\ Len(figures_tables) >= 1
    /\ figure_matches # <<>>
    /\ figure_matches[1].end < Len(text)
    /\ text[figure_matches[1].end] = "."
    /\ text[figure_matches[1].numEnd + 1] = ":"
    /\ figures_tables[1].caption # <<>>
    /\ figures_tables[1].caption # CaptionRaw(text, figure_matches[1])

-----------------------------------------------------------------------------
(* Properties of download_pdf, checked under SpecFetch.                    *)

\* C10: download_pdf never raises to its caller, and returns None when the
\* transport call raised or the response status is a failure (such as 404).
C10_NeverRaises ==
    Done =>
        /\ outcome.exc = ""
        /\ (http.kind = "error" \/ (http.kind = "response" /\ StatusFails(http.status)))
               => outcome.ret = None

\* C10 witness: the response had status 404 and the call returned None.
C10_Witness ==
    /\ Done
    /\ http.kind = "response"
    /\ http.status = 404
    /\ EndsWith(url, PdfSuffix)
    /\ outcome = Returned(None)

\* the response came back with a status raise_for_status accepts
SuccessResponse == http.kind = "response" /\ ~StatusFails(http.status)

\* the declared content type names the PDF MIME type
DeclaresPdf == \E p \in 1..Len(http.content_type) :
    /\ p + Len(PdfMime) - 1 <= Len(http.content_type)
    /\ \A i \in 1..Len(PdfMime) : http.content_type[p + i - 1] = PdfMime[i]

\* the URL ends in .pdf, in any letter case
UrlEndsInPdf ==
    /\ Len(url) >= 4
    /\ LowerSeq(SubSeq(url, Len(url) - 3, Len(url))) = PdfSuffix

\* C11: for a response with a success status, download_pdf returns None exactly
\* when the content type is not a PDF type and the URL does not end in .pdf,
\* and returns the payload in every other case; Content-Type text/html with a
\* URL not ending in .pdf gives None.
C11_FailureIffNotPdf ==
    (Done /\ SuccessResponse) =>
        /\ outcome.exc = ""
        /\ (outcome.ret = None) <=> (~DeclaresPdf /\ ~UrlEndsInPdf)
        /\ (DeclaresPdf \/ UrlEndsInPdf) => outcome.ret = Some(http.content)
        /\ (http.content_type = <<"t","e","x","t","/","h","t","m","l">> /\ ~UrlEndsInPdf) => outcome.ret = None

\* C11 witness: status 200, Content-Type text/html, a URL without the suffix,
\* and None was returned.
C11_Witness ==
    /\ Done
    /\ http.kind = "response"
    /\ http.status = 200
    /\ http.content_type = <<"t","e","x","t","/","h","t","m","l">>
    /\ url = <<"h","/","a">>
    /\ outcome = Returned(None)

-----------------------------------------------------------------------------
(* Properties of extract_text_from_pdf, checked under SpecExtract.         *)

NPages == Len(pdf.pages)

\* the document opens and the extraction of every page returns a text
ValidPdf == pdf.opens /\ \A i \in 1..NPages : ~pdf.pages[i].throws

\* the texts of the pages from page i on, with the separator between them only
RECURSIVE JoinedFrom(_)
JoinedFrom(i) ==
    IF i > NPages THEN <<>>
    ELSE IF i = NPages THEN pdf.pages[i].text
    ELSE pdf.pages[i].text \o PageSep \o JoinedFrom(i + 1)

\* the texts of the pages from page i on, each followed by the separator
RECURSIVE TerminatedFrom(_)
TerminatedFrom(i) ==
    IF i > NPages THEN <<>>
    ELSE pdf.pages[i].text \o PageSep \o TerminatedFrom(i + 1)

\* the sum of the lengths of the page texts from page i on
RECURSIVE PageChars(_)
PageChars(i) == IF i > NPages THEN 0 ELSE Len(pdf.pages[i].text) + PageChars(i + 1)

\* C13 as stated: for a valid PDF of N >= 1 pages the text is the page texts in
\* page order with a double newline between pages only: N - 1 separators, none
\* after the last page.
C13_SeparatorBetweenPages ==
    (Done /\ ValidPdf /\ NPages >= 1) =>
        /\ extracted.ret = Some(JoinedFrom(1))
        /\ Len(extracted.ret.value) = PageChars(1) + Len(PageSep) * (NPages - 1)

\* C13 (amended): for a valid PDF of N >= 1 pages the text is the page texts in
\* page order, each followed by a double newline: N separators, one of them
\* after the last page.
C13_SeparatorAfterEachPage ==
    (Done /\ ValidPdf /\ NPages >= 1) =>
        /\ extracted.exc = ""
        /\ extracted.ret = Some(TerminatedFrom(1))
        /\ Len(extracted.ret.value) = PageChars(1) + Len(PageSep) * NPages

\* C13 witness: a valid PDF of two pages with text, whose extracted text ends
\* in the separator.
C13_Witness ==
    /\ Done
    /\ ValidPdf
    /\ NPages = 2
    /\ pdf.pages[1].text = <<"a">>
    /\ pdf.pages[2].text = <<"a">>
    /\ extracted = Returned(Some(<<"a","\n","\n","a","\n","\n">>))

\* C14: extract_text_from_pdf never raises, and when the bytes do not open as a
\* PDF or the extraction of any page throws, it returns None: the text of the
\* pages before the failing one is not returned.
C14_AllOrNothing ==
    Done =>
        /\ extracted.exc = ""
        /\ (~ValidPdf) => extracted.ret = None
        /\ ValidPdf => extracted.ret.some

\* C14 witness: the first page gave a text, the second page threw, and the
\* result is None.
C14_Witness ==
    /\ Done
    /\ pdf.opens
    /\ NPages = 2
    /\ ~pdf.pages[1].throws
    /\ pdf.pages[1].text # <<>>
    /\ pdf.pages[2].throws
    /\ extracted = Returned(None)

-----------------------------------------------------------------------------
(* Properties of process_papers and process_pdf, checked under SpecPipe.   *)

NPapers == Len(papers)

\* the positions of the log where step e of paper i stands
EventsOf(i, e) == { k \in DOMAIN log : log[k] = Event(e, i) }
Ran(i, e) == EventsOf(i, e) # {}

Occurs(sub, s) ==
    \E p \in 1..Len(s) :
        /\ p + Len(sub) - 1 <= Len(s)
        /\ \A k \in 1..Len(sub) : s[p + k - 1] = sub[k]

\* what paper i's URL served was a PDF delivered with a success status
FetchSucceeded(i) ==
    LET h == served[i].http
        u == papers_in[i].url.value
    IN /\ h.kind = "response"
       /\ h.status < 400
       /\ \/ Occurs(PdfMime, h.content_type)
          \/ Len(u) >= 4 /\ LowerSeq(SubSeq(u, Len(u) - 3, Len(u))) = PdfSuffix

\* the document served for paper i opens and every page gives a text
ExtractionSucceeded(i) ==
    LET d == served[i].doc
    IN d.opens /\ \A k \in 1..Len(d.pages) : ~d.pages[k].throws

\* the text of the pages ps from page k on, each followed by the separator
RECURSIVE PagesText(_, _)
PagesText(ps, k) ==
    IF k > Len(ps) THEN <<>> ELSE ps[k].text \o PageSep \o PagesText(ps, k + 1)

ServedText(i) == PagesText(served[i].doc.pages, 1)

\* C12: in one pass of process_papers at most one retrieval is attempted per
\* paper; after a failed fetch the paper's URL is not requested again.
C12_AtMostOneFetch ==
    \A i \in 1..NPapers : Cardinality(EventsOf(i, "fetch")) <= 1

\* C12 witness: a finished pass over two papers in which the fetch of the first
\* paper failed and was attempted once.
C12_Witness ==
    /\ Done
    /\ NPapers = 2
    /\ Ran(1, "fetch")
    /\ ~FetchSucceeded(1)
    /\ Cardinality(EventsOf(1, "fetch")) = 1
    /\ Ran(2, "fetch")

\* C15: when the fetch or the extraction for a paper fails, the paper record
\* is left as it was on input: every field keeps its value and no content,
\* sections or figures_tables is added or changed.
C15_FailedPaperUnmodified ==
    \A i \in 1..NPapers :
        (Ran(i, "fetch") /\ (~FetchSucceeded(i) \/ ~ExtractionSucceeded(i))) =>
            papers[i] = papers_in[i]

\* C15 witness: a paper that came with a content of its own, whose fetch
\* failed, still has that content and no sections or figures_tables.
C15_Witness ==
    /\ Done
    /\ NPapers >= 1
    /\ papers_in[1].content = Some(<<"o","l","d">>)
    /\ Ran(1, "fetch")
    /\ ~FetchSucceeded(1)
    /\ papers[1].content = Some(<<"o","l","d">>)
    /\ papers[1].sections = None
    /\ papers[1].figures_tables = None

\* C16 as stated: the returned list contains every input paper, in input
\* order, including those whose processing failed.
C16_EveryPaperReturned ==
    Done => processed_papers = [k \in 1..Len(papers_in) |-> k]

\* the steps of paper i stand in the order e1, e2 when both were taken
Before(i, e1, e2) ==
    \A a \in EventsOf(i, e1), b \in EventsOf(i, e2) : a < b

\* C17: the stages run in the order fetch, extract, segment, figure/table
\* extraction, and a stage runs only if every earlier stage succeeded; a
\* failure is returned without raising (the paper is still appended).
C17_StagesInOrder ==
    \A i \in 1..NPapers :
        /\ Before(i, "fetch", "extract")
        /\ Before(i, "extract", "segment")
        /\ Before(i, "segment", "figures")
        /\ Ran(i, "extract") => (Ran(i, "fetch") /\ FetchSucceeded(i))
        /\ Ran(i, "segment") =>
               (Ran(i, "extract") /\ FetchSucceeded(i) /\ ExtractionSucceeded(i))
        /\ Ran(i, "figures") => Ran(i, "segment")
        /\ Ran(i, "fetch") => (~Ran(i, "error") /\ Ran(i, "append"))

\* C17 witness: a finished pass with one paper whose fetch failed (nothing
\* else was run) and one whose extraction failed (no segmentation).
C17_Witness ==
    /\ Done
    /\ NPapers = 2
    /\ Ran(1, "fetch") /\ ~FetchSucceeded(1) /\ ~Ran(1, "extract")
    /\ Ran(2, "fetch") /\ FetchSucceeded(2) /\ Ran(2, "extract")
    /\ ~ExtractionSucceeded(2) /\ ~Ran(2, "segment") /\ ~Ran(2, "figures")

\* the segmenter and the reference extractor were run on text t for paper i
\* and their results and t are in the paper record
AttachedFrom(i, t) ==
    /\ Ran(i, "segment")
    /\ Ran(i, "figures")
    /\ papers[i].content = Some(t)
    /\ papers[i].sections = Some(SectionMap(t))
    /\ papers[i].figures_tables = Some(FiguresTables(t))

\* C18 as stated: whenever the fetch and the text extraction both succeed,
\* whatever the text (the empty text of a PDF with no pages included), the
\* segmenter and the reference extractor are run on it and content, sections
\* and figures_tables are attached.
C18_AttachedOnEverySuccess ==
    \A i \in 1..NPapers :
        (Ran(i, "fetch") /\ FetchSucceeded(i) /\ ExtractionSucceeded(i)) =>
            AttachedFrom(i, ServedText(i))

\* C18 (amended): whenever the fetch and the text extraction both succeed and
\* the extracted text is not empty, the segmenter and the reference extractor
\* are run on it and content, sections and figures_tables are attached; an
\* empty extracted text is treated as a failure and nothing is attached.
C18_AttachedOnNonEmptyText ==
    \A i \in 1..NPapers :
        (Ran(i, "fetch") /\ FetchSucceeded(i) /\ ExtractionSucceeded(i)) =>
            IF ServedText(i) # <<>>
            THEN AttachedFrom(i, ServedText(i))
            ELSE papers[i] = papers_in[i] /\ ~Ran(i, "segment") /\ ~Ran(i, "figures")

\* C18 witness: a paper whose one-page PDF was fetched and extracted carries
\* the text, a Method section and one figure record.
C18_Witness ==
    /\ Done
    /\ NPapers >= 1
    /\ Ran(1, "fetch") /\ FetchSucceeded(1) /\ ExtractionSucceeded(1)
    /\ papers[1].content = Some(PaperText \o PageSep)
    /\ KeyMethod \in DOMAIN papers[1].sections.value
    /\ Len(papers[1].figures_tables.value) = 1
    /\ papers[1].figures_tables.value[1].type = "figure"

\* C19: the papers are handled one at a time in input order, and between the
\* fetches of any two papers a delay step occurs.
C19_SequentialWithDelay ==
    /\ \A k \in 1..(Len(log) - 1) : log[k].paper <= log[k + 1].paper
    /\ \A k \in 1..(Len(processed_papers) - 1) :
           processed_papers[k] < processed_papers[k + 1]
    /\ \A a, b \in DOMAIN log :
           (a < b /\ log[a].ev = "fetch" /\ log[b].ev = "fetch") =>
               \E c \in DOMAIN log : a < c /\ c < b /\ log[c].ev = "sleep"

\* C19 witness: two papers were fetched, the first before the second.
C19_Witness ==
    /\ Done
    /\ NPapers = 2
    /\ Ran(1, "fetch")
    /\ Ran(2, "fetch")
    /\ Before(1, "fetch", "sleep")
    /\ \A a \in EventsOf(1, "sleep"), b \in EventsOf(2, "fetch") : a < b

\* paper i carries the text t and what the segmenter and the reference
\* extractor give for t
SetFrom(i, t) ==
    /\ papers[i].content = Some(t)
    /\ papers[i].sections = Some(SectionMap(t))
    /\ papers[i].figures_tables = Some(FiguresTables(t))

\* C27: every paper of the result either has content, sections and
\* figures_tables all three set from the one extracted text, with a non-empty
\* content and a non-empty sections dict, or has none of the three set or
\* changed by the call.
C27_AllThreeOrNone ==
    \A k \in DOMAIN processed_papers :
        LET i == processed_papers[k] IN
        \/ /\ Ran(i, "extract")
           /\ ServedText(i) # <<>>
           /\ SetFrom(i, ServedText(i))
           /\ papers[i].content.value # <<>>
           /\ DOMAIN papers[i].sections.value # {}
        \/ papers[i] = papers_in[i]

\* C27 witness: of two returned papers, the first carries the text of a PDF
\* without headings, its Full Text section and an empty list of references;
\* the second, whose fetch failed, is as it was given.
C27_Witness ==
    /\ Done
    /\ processed_papers = <<1, 2>>
    /\ Ran(1, "figures")
    /\ SetFrom(1, PlainText \o PageSep)
    /\ DOMAIN papers[1].sections.value = {FullTextKey}
    /\ papers[1].figures_tables.value = <<>>
    /\ Ran(2, "fetch") /\ ~FetchSucceeded(2)
    /\ papers[2] = papers_in[2]
    /\ papers_in[1] # papers[1]

-----------------------------------------------------------------------------
(* Properties of store_paper, checked under SpecStore.                     *)

Stored == Done /\ store_ret = Some(TRUE)

\* the date the call was given (the call does not change it)
DateGiven == paper_data.published_date

\* the year the rule derives from a date: the year component of a string that
\* parses as YYYY-MM-DD, else the integer its first four characters parse as,
\* else null; null for a date of None
DerivedYear(d) ==
    IF ~d.some THEN None
    ELSE IF Strptime(d.value).some THEN Strptime(d.value)
    ELSE IF IntOf(First4(d.value)).some THEN IntOf(First4(d.value))
    ELSE None

\* C20 as stated: the year stored by store_paper is derived from published_date
\* ("2023-05-10" gives 2023, "2023" gives 2023, an unparseable string gives
\* null), and a published_date of None gives year None whatever year the
\* record carried on input.
C20_YearDerivedFromDate ==
    Stored => db_papers[paper_data.paper_id].year = DerivedYear(DateGiven)

-----------------------------------------------------------------------------
(* Properties of the database calls, checked under SpecDb.                 *)

\* this step is a store_paper call that returns True
StoreSucceeds == pc = "ready" /\ pc' = "done" /\ store_ret' = Some(TRUE)

\* this step is a clear_topic_data call that returns True
ClearSucceeds ==
    /\ ncalls' = ncalls + 1
    /\ db_call'.op = "clear_topic_data"
    /\ db_ret' = Returned(Some(TRUE))

\* the topics paper pid belongs to
TopicsOf(pid) == { t \in Topics : pid \in MembersOf(CurrentDb, t) }

\* the number of BELONGS_TO edges from paper pid to topic t
NEdges(pid, t) == Cardinality({ k \in DOMAIN db_belongs : db_belongs[k] = <<pid, t>> })

\* the unfiltered get_papers_by_topic(t)
PapersOfTopic(t) == AgentPapers(CurrentDb, t, None, None)

\* C21 as stated: store_paper is last-write-wins per paper_id: after a
\* successful call there is one stored paper with that paper_id and each of
\* its scalar fields, content included, has the value the call gave.
C21_LastWriteWins ==
    [][StoreSucceeds =>
          /\ paper_data'.paper_id \in DOMAIN db_papers'
          /\ PaperById(CurrentDb', paper_data'.paper_id) = Some(paper_data')]_vars

\* the year of a paper lies in the range the given bounds describe
YearWithin(p, yf, yt) ==
    /\ yf # None => (p.year # None /\ p.year.value >= yf.value)
    /\ yt # None => (p.year # None /\ p.year.value <= yt.value)

\* C22: get_papers_by_topic(T, year_from, year_to) returns exactly the stored
\* papers that belong to T and whose year lies in the inclusive range of the
\* bounds given, each once, by year descending and, for equal years, by title
\* ascending (a paper without a year has no place among the years).
C22_TopicPapersFilteredAndOrdered ==
    (db_call.op = "get_papers_by_topic" /\ db_ret.exc = "") =>
        LET r == db_ret.ret.value
            T == db_call.topic
        IN /\ \A k \in DOMAIN r : r[k] = PaperDict(CurrentDb, r[k].paper_id)
           /\ { r[k].paper_id : k \in DOMAIN r } =
                  { pid \in DOMAIN db_papers :
                      /\ pid \in MembersOf(CurrentDb, T)
                      /\ YearWithin(db_papers[pid], db_call.year_from, db_call.year_to) }
           /\ \A i, j \in DOMAIN r : r[i].paper_id = r[j].paper_id => i = j
           /\ \A i, j \in DOMAIN r :
                  (i < j /\ r[i].year.some /\ r[j].year.some) =>
                      r[i].year.value >= r[j].year.value
           /\ \A i, j \in DOMAIN r :
                  (i < j /\ r[i].year = r[j].year) => StrLeq(r[i].title, r[j].title)

\* C22 witness: a query with a lower bound returned two papers of the same
\* year, title A before title B, and left an older paper out.
C22_Witness ==
    /\ db_call.op = "get_papers_by_topic"
    /\ db_call.year_from = Some(2020)
    /\ db_ret.exc = ""
    /\ Len(db_ret.ret.value) = 2
    /\ db_ret.ret.value[1].title = <<"A">>
    /\ db_ret.ret.value[2].title = <<"B">>
    /\ db_ret.ret.value[1].year = db_ret.ret.value[2].year

\* C23: after a successful clear_topic_data(T) every paper that belonged to T
\* is gone with its edges: get_papers_by_topic(T) returns the empty list and
\* get_paper_by_id returns None for each of them.
C23_ClearRemovesMembers ==
    [][ClearSucceeds =>
          /\ \A pid \in MembersOf(CurrentDb, db_call'.topic) :
                /\ PaperById(CurrentDb', pid) = None
                /\ \A k \in DOMAIN db_belongs' : db_belongs'[k][1] # pid
          /\ AgentPapers(CurrentDb', db_call'.topic, None, None) = {<<>>}
          /\ \A yf \in YearFroms, yt \in YearTos :
                AgentPapers(CurrentDb', db_call'.topic, yf, yt) = {<<>>}]_vars

\* C23 witness: paper p1 was stored under two topics and a successful clear
\* of one of them has removed it.
C23_Witness ==
    /\ db_call.op = "clear_topic_data"
    /\ db_ret = Returned(Some(TRUE))
    /\ store_ret = Some(TRUE)
    /\ paper_data.paper_id = "p1"
    /\ ncalls = 3
    /\ db_topics = Topics
    /\ db_papers = <<>>
    /\ db_belongs = <<>>

\* C24: a stored paper is deleted only by a clear_topic_data call for a topic
\* the paper belongs to; no store or lookup removes it.
C24_DeletedOnlyByClear ==
    [][\A pid \in DOMAIN db_papers :
          pid \notin DOMAIN db_papers' =>
              /\ ClearSucceeds
              /\ pid \in MembersOf(CurrentDb, db_call'.topic)]_vars

\* C24 witness: p1 was stored under one topic and the other topic, which
\* holds p2, was then cleared with success; p1 is still stored, p2 is not.
C24_Witness ==
    /\ ncalls = 3
    /\ store_ret = Some(TRUE)
    /\ paper_data.paper_id = "p1"
    /\ db_call.op = "clear_topic_data"
    /\ db_call.topic # topic_name
    /\ db_ret = Returned(Some(TRUE))
    /\ DOMAIN db_papers = {"p1"}
    /\ db_topics = Topics
    /\ TopicsOf("p1") = {topic_name}

\* C25: a successful store_paper(p, T) makes p a member of T (the unfiltered
\* get_papers_by_topic(T) returns it, once), creates no second edge when p
\* already belongs to T, and keeps every membership p had.
C25_MembershipAtStore ==
    [][StoreSucceeds =>
          LET pid == paper_data.paper_id IN
          /\ \A r \in PapersOfTopic(topic_name)' :
                Cardinality({ k \in DOMAIN r : r[k].paper_id = pid }) = 1
          /\ NEdges(pid, topic_name)' = 1
          /\ TopicsOf(pid)' = TopicsOf(pid) \cup {topic_name}
          /\ \A q \in PaperIds \ {pid} : TopicsOf(q)' = TopicsOf(q)]_vars

\* C25 witness: p1 was stored under nlp, then under cv, then under nlp again:
\* it belongs to both topics, with one edge each.
C25_Witness ==
    /\ pc = "done"
    /\ ncalls = 3
    /\ db_call = Call("store_paper", "nlp", "p1", None, None)
    /\ store_ret = Some(TRUE)
    /\ db_belongs = << <<"p1", "nlp">>, <<"p1", "cv">> >>
    /\ TopicsOf("p1") = Topics

\* C28 as stated: clear_topic_data(T) leaves get_papers_by_topic(T2) as it was
\* for every other topic T2, also when a paper belongs to both T and T2, and
\* leaves the list of get_topics as it was.
C28_ClearScopedToTopic ==
    [][ClearSucceeds =>
          /\ \A t2 \in Topics \ {db_call'.topic} : PapersOfTopic(t2)' = PapersOfTopic(t2)
          /\ TopicList(CurrentDb)' = TopicList(CurrentDb)]_vars

-----------------------------------------------------------------------------
(* Properties of the inference calls, checked under SpecLlm.                *)

\* the inference call of the latest operation failed
InferenceFailed == llm_reply.kind \in {"raises", "malformed"}

\* text t begins with "Error:"
BeginsWithError(t) == Len(t) >= 6 /\ SubSeq(t, 1, 6) = <<"E","r","r","o","r",":">>

\* C26: a failure of the inference call never leaves _ask_llm (of either
\* agent), generate_future_work or answer_question as an exception: the
\* operation returns, and the text it returns begins with "Error:".
C26_FailureBecomesErrorText ==
    /\ llm_ret.exc = ""
    /\ InferenceFailed => BeginsWithError(llm_ret.text)

\* C26 witness: the inference call of answer_question timed out and the
\* answer is the error text of _ask_llm with the exception's message.
C26_Witness ==
    /\ llm_op.op = "answer_question"
    /\ llm_reply = ChatRaises("ReadTimeout", <<"t","i","m","e","d"," ","o","u","t">>)
    /\ llm_ret = Payload("answer", <<"q">>, AskFailed \o <<"t","i","m","e","d"," ","o","u","t">>)

-----------------------------------------------------------------------------
(* Properties of POST /search, checked under SpecSearch.                    *)

\* the positions of the trace where step e of request r stands
StepsOf(r, e) == { k \in DOMAIN trace : trace[k].ev = e /\ trace[k].req = r }

\* the background tasks of request r that were not run yet
PendingOf(r) == { k \in DOMAIN background : background[k].req = r }

\* C29: a /search request hands the papers search_arxiv found to store_papers
\* once and returns those papers; with fetch_content false or no paper found
\* the store is done before the response, otherwise it is a background task
\* that runs after the response; process_papers is never run.
C29_StoredOnceAroundResponse ==
    /\ \A r \in 1..NRequests :
          \E s \in StepsOf(r, "search"), a \in StepsOf(r, "response") :
             LET ps == trace[s].papers
                 stores == StepsOf(r, "store_papers")
             IN /\ StepsOf(r, "search") = {s}
                /\ StepsOf(r, "response") = {a}
                /\ s < a
                /\ trace[a].papers = ps
                /\ Cardinality(stores) + Cardinality(PendingOf(r)) = 1
                /\ \A k \in stores : trace[k].papers = ps
                /\ \A k \in PendingOf(r) : background[k].papers = ps
                /\ IF trace[s].fetch_content /\ ps # <<>>
                   THEN \A k \in stores : a < k
                   ELSE stores # {} /\ \A k \in stores : s < k /\ k < a
    /\ response # None =>
          /\ response.value.papers = found
          /\ StepsOf(NRequests, "response") # {}
    /\ log = <<>>
    /\ processed_papers = <<>>
    /\ papers = <<>>

\* C29 witness: the first request, without fetch_content, stored its paper
\* before its response; the second, with fetch_content, got its response with
\* two papers while the store is still a pending background task, and the
\* lookup that follows the response sees only the paper of the first request.
C29_Witness ==
    /\ Len(trace) = 7
    /\ [k \in 1..7 |-> trace[k].ev] =
           <<"search", "store_papers", "response", "search", "add_task", "response", "lookup">>
    /\ ~trace[1].fetch_content
    /\ trace[4].fetch_content
    /\ Len(response.value.papers) = 2
    /\ Len(background) = 1
    /\ db_call.topic = request.topic
    /\ db_ret.exc = ""
    /\ Len(db_ret.ret.value) = 1
    /\ DOMAIN db_papers = {"p1"}

====
